---- MODULE Spec2Model ----
(***************************************************************************)
(* Minutes generation of the meeting backend: the relaxed JSON extraction  *)
(* of gemini_client.py, the key-point normalisation and the fallback       *)
(* synthesis of minutes_service.py, and generate_minutes_with_ai as a      *)
(* state machine.                                                          *)
(*                                                                         *)
(* A text is a sequence of characters.  A character is a one-character     *)
(* string; the backquote and the characters outside ASCII are written by   *)
(* their code point ("U+2019").                                            *)
(***************************************************************************)
EXTENDS Integers, Sequences, FiniteSets, TLC

VARIABLES
    pc,              \* position inside the running operation
    kind,            \* parse: how raw was built ("wellformed", "relaxed", "other")
    raw,             \* parse: the text handed to _parse_json_object_relaxed
    body,            \* parse: the unwrapped object text raw was built from
    intended,        \* parse: the object raw was written to mean
    ci,              \* parse: index of the candidate being tried
    vi,              \* parse: index of the variant being tried
    parsed,          \* parse: the value returned (NoneValue when nothing parsed)
    pointsIn,        \* points: the value handed to _normalize_key_points
    pointsOut,       \* points: the list it returned
    meeting,         \* minutes: the meeting row and the rows loaded for it
    request,         \* minutes: the GenerateMinutesRequest
    language,        \* minutes: settings.llm_output_language
    llm,             \* minutes: the provider and what its call does
    response,        \* minutes: the text GeminiChat.chat returned
    summary_result,  \* minutes: the summary and the key points so far
    render_args,     \* minutes: the arguments of the call of format_minutes
    minutes,         \* minutes: the meeting_minutes rows, oldest first
    row_type,        \* rows: the row_type handed to _normalize_rows_from_llm
    raw_rows,        \* rows: the raw_rows handed to it
    rowsOut,         \* rows: the list it returned
    renderIn,        \* render: the arguments handed to format_minutes
    renderOut,       \* render: the lines of the text it returned
    llm_output_language, \* language: the value of settings.llm_output_language
    selection,       \* language: what each reader of the setting selected
    recoverIn,       \* recover: the text handed to the summary recoverers
    recoverOut,      \* recover: what each recoverer returned
    normIn,          \* normalize: the raw text and the normalizer it is handed to
    normOut,         \* normalize: the results of the successive applications
    embeddedIn,      \* embedded: the text handed to both extractors
    embeddedOut,     \* embedded: what each extractor recovered
    meeting_minutes, \* store: the rows of table meeting_minutes, in insertion order
    sessions,        \* store: the call each database session is running
    failed_attempts, \* login: _failed_attempts, the failure times of each throttle key
    blocked_until,   \* login: _blocked_until, the end of the block of each key
    clock,           \* login: the time _now_ts returns, in seconds
    logins,          \* login: the authenticate_user call of each caller
    windowing,       \* windows: the locals of _summarize_transcript_windows
    deletion         \* project: the database, the files and the locals of delete_project

vars == <<pc, kind, raw, body, intended, ci, vi, parsed, pointsIn, pointsOut,
          meeting, request, language, llm, response, summary_result, render_args, minutes,
          row_type, raw_rows, rowsOut, renderIn, renderOut, llm_output_language,
          selection,
          recoverIn, recoverOut, normIn, normOut, embeddedIn, embeddedOut,
          meeting_minutes, sessions, failed_attempts, blocked_until, clock, logins,
          windowing, deletion>>

parseVars == <<kind, raw, body, intended, ci, vi, parsed>>
pointsVars == <<pointsIn, pointsOut>>
minutesVars == <<meeting, request, language, llm, response, summary_result, render_args,
                 minutes>>
rowsVars == <<row_type, raw_rows, rowsOut>>
renderVars == <<renderIn, renderOut>>
languageVars == <<llm_output_language, selection>>
recoverVars == <<recoverIn, recoverOut>>
normalizeVars == <<normIn, normOut>>
embeddedVars == <<embeddedIn, embeddedOut>>
storeVars == <<meeting_minutes, sessions>>
loginVars == <<failed_attempts, blocked_until, clock, logins>>
serviceVars == <<normalizeVars, embeddedVars, storeVars, loginVars, windowing, deletion>>
otherVars == <<rowsVars, renderVars, languageVars, recoverVars, serviceVars>>

----------------------------------------------------------------------------
(* Characters *)

BQ == "U+0060"
LDQUO == "U+201C"
RDQUO == "U+201D"
LSQUO == "U+2018"
RSQUO == "U+2019"
BULLET == "U+2022"
DQ == "\""
SQ == "'"
BSL == "\\"
NL == "\n"
TAB == "\t"
CR == "\r"

WS == {" ", NL, TAB, CR}

Digits == {"0", "1", "2", "3", "4", "5", "6", "7", "8", "9"}

UpperSeq ==
    <<"A", "B", "C", "D", "E", "F", "G", "H", "I", "J", "K", "L", "M",
      "N", "O", "P", "Q", "R", "S", "T", "U", "V", "W", "X", "Y", "Z",
      "U+00D4", "U+00D5", "U+00D3", "U+0110", "U+1EE6", "U+1EA4", "U+1EC0", "U+1EBE",
      "U+1EC6">>

LowerSeq ==
    <<"a", "b", "c", "d", "e", "f", "g", "h", "i", "j", "k", "l", "m",
      "n", "o", "p", "q", "r", "s", "t", "u", "v", "w", "x", "y", "z",
      "U+00F4", "U+00F5", "U+00F3", "U+0111", "U+1EE7", "U+1EA5", "U+1EC1", "U+1EBF",
      "U+1EC7">>

AsciiUpper == {UpperSeq[i] : i \in 1..26}
AsciiLower == {LowerSeq[i] : i \in 1..26}
AsciiLetters == AsciiUpper \cup AsciiLower

LowerOf ==
    [c \in {UpperSeq[i] : i \in 1..Len(UpperSeq)} |->
        LowerSeq[CHOOSE i \in 1..Len(UpperSeq) : UpperSeq[i] = c]]

LowerChar(c) == IF c \in DOMAIN LowerOf THEN LowerOf[c] ELSE c

\* str.lower()
Lower(s) == [i \in 1..Len(s) |-> LowerChar(s[i])]

----------------------------------------------------------------------------
(* Sequences of characters *)

\* Body at the value v: v is computed once and named by Body's parameter
With(v, Body(_)) == Body(v)

Min(S) == CHOOSE x \in S : \A y \in S : x <= y
Max(S) == CHOOSE x \in S : \A y \in S : y <= x

\* the characters of s at the indices that satisfy Keep, in order
Sel(s, Keep(_)) ==
    LET idx == SelectSeq([i \in 1..Len(s) |-> i], Keep)
    IN  [k \in 1..Len(idx) |-> s[idx[k]]]

\* the number of whitespace characters at the end of s
TrailingWs(s) ==
    CHOOSE k \in 0..Len(s) :
        /\ \A m \in 1..k : s[Len(s) - m + 1] \in WS
        /\ k = Len(s) \/ s[Len(s) - k] \notin WS

\* the number of whitespace characters at the start of s
LeadingWs(s) ==
    CHOOSE k \in 0..Len(s) :
        /\ \A m \in 1..k : s[m] \in WS
        /\ k = Len(s) \/ s[k + 1] \notin WS

\* str.rstrip() and str.strip()
RStrip(s) == SubSeq(s, 1, Len(s) - TrailingWs(s))

Strip(s) == SubSeq(s, LeadingWs(s) + 1, Len(s) - TrailingWs(s))

\* s[from:] (1-based from)
From(s, i) == SubSeq(s, i, Len(s))

\* whether p occurs in s at index i
At(s, i, p) ==
    /\ i >= 1
    /\ i + Len(p) - 1 <= Len(s)
    /\ \A k \in 1..Len(p) : s[i + k - 1] = p[k]

StartsWith(s, p) == At(s, 1, p)

\* whether p (in lower case) occurs in s at index i, ignoring case
AtLower(s, i, p) ==
    /\ i >= 1
    /\ i + Len(p) - 1 <= Len(s)
    /\ \A k \in 1..Len(p) : LowerChar(s[i + k - 1]) = p[k]

\* p in s
Contains(s, p) == \E i \in 1..(Len(s) - Len(p) + 1) : At(s, i, p)

\* str.find / str.rfind of one character, 0 when absent (Python's -1)
Find(s, c) ==
    LET hits == {i \in 1..Len(s) : s[i] = c}
    IN  IF hits = {} THEN 0 ELSE Min(hits)

RFind(s, c) ==
    IF \A i \in 1..Len(s) : s[i] # c THEN 0
    ELSE CHOOSE i \in 1..Len(s) : s[i] = c /\ \A j \in (i + 1)..Len(s) : s[j] # c

\* the first index >= i of s that is not whitespace, Len(s) + 1 when none
SkipWs(s, i) ==
    LET ink == {j \in i..Len(s) : s[j] \notin WS}
    IN  IF ink = {} THEN Len(s) + 1 ELSE Min(ink)

\* the concatenation of piece[lo], ..., piece[hi]
RECURSIVE Flat(_, _, _)
Flat(piece, lo, hi) ==
    IF lo > hi THEN <<>>
    ELSE IF lo = hi THEN piece[lo]
    ELSE LET mid == (lo + hi) \div 2
         IN  Flat(piece, lo, mid) \o Flat(piece, mid + 1, hi)

\* str.replace(c, d) for one character c and a text d
ReplaceChar(s, c, d) ==
    Flat([i \in 1..Len(s) |-> IF s[i] = c THEN d ELSE <<s[i]>>], 1, Len(s))

\* re.sub over the matches ms (ascending, non-overlapping records
\* [from, to, repl]): the text between the matches is kept
Subst(s, ms) ==
    LET n == Len(ms)
        piece == [k \in 1..(n + 1) |->
                    LET start == IF k = 1 THEN 1 ELSE ms[k - 1].to + 1
                    IN  IF k = n + 1 THEN SubSeq(s, start, Len(s))
                        ELSE SubSeq(s, start, ms[k].from - 1) \o ms[k].repl]
    IN  Flat(piece, 1, n + 1)


\* the number of consecutive backslashes of s that end right before index j
BslRun(s, j) ==
    CHOOSE r \in 0..(j - 1) :
        /\ \A k \in 1..r : s[j - k] = BSL
        /\ r = j - 1 \/ s[j - r - 1] # BSL

\* index j of s is not escaped by a backslash
Unescaped(s, j) == BslRun(s, j) % 2 = 0

\* index k of s is a backslash that escapes the character after it
EscIntro(s, k) == s[k] = BSL /\ Unescaped(s, k)

----------------------------------------------------------------------------
(* gemini_client.py: code fences, candidates, variants *)

Fence == <<BQ, BQ, BQ>>

FenceTags ==
    << <<"j", "s", "o", "n">>,
       <<"j", "a", "v", "a", "s", "c", "r", "i", "p", "t">>,
       <<"j", "s">>,
       <<"t", "e", "x", "t">>,
       <<"m", "a", "r", "k", "d", "o", "w", "n">> >>

\* the length of the language tag that (?:json|javascript|js|text|markdown)?
\* matches at index i of text (IGNORECASE, the first alternative that matches)
FenceTagLen(text, tags, i) ==
    LET hit == {k \in 1..Len(tags) : AtLower(text, i, tags[k])}
    IN  IF hit = {} THEN 0 ELSE Len(tags[Min(hit)])

\* re.sub(r"^```(?:tags)?\s*", "", text) on a text that starts with a fence
StripOpeningFence(text, tags) ==
    From(text, SkipWs(text, 4 + FenceTagLen(text, tags, 4)))

\* re.sub(r"\s*```$", "", text): "$" is the end of the text, or the position
\* before a newline that ends it
StripClosingFence(text) ==
    LET n == Len(text)
    IN  IF n >= 3 /\ At(text, n - 2, Fence)
        THEN RStrip(SubSeq(text, 1, n - 3))
        ELSE IF n >= 4 /\ text[n] = NL /\ At(text, n - 3, Fence)
        THEN RStrip(SubSeq(text, 1, n - 4)) \o <<NL>>
        ELSE text

strip_code_fences(rawText) ==
    With(Strip(rawText), LAMBDA text :
        IF ~StartsWith(text, Fence) THEN text
        ELSE Strip(StripClosingFence(StripOpeningFence(text, FenceTags))))

\* .replace of the four typographic quotes by their ASCII equivalents
AsciiQuotes(s) ==
    [i \in 1..Len(s) |->
        IF s[i] \in {LDQUO, RDQUO} THEN DQ
        ELSE IF s[i] \in {LSQUO, RSQUO} THEN SQ
        ELSE s[i]]

\* [c.strip() for c in texts if c and c.strip()]
StrippedNonEmpty(texts) ==
    LET kept == SelectSeq(texts, LAMBDA c : Strip(c) # <<>>)
    IN  [k \in 1..Len(kept) |-> Strip(kept[k])]

json_object_candidates(rawText) ==
    With(AsciiQuotes(strip_code_fences(rawText)), LAMBDA cleaned :
        LET start == Find(cleaned, "{")
            end == RFind(cleaned, "}")
        IN  StrippedNonEmpty(
                IF 0 < start /\ start < end
                THEN <<cleaned, SubSeq(cleaned, start, end)>>
                ELSE <<cleaned>>))

\* the matches of r",\s*([}\]])", each replaced by its closing bracket
TrailingCommaMatches(s) ==
    LET isMatch(i) ==
            /\ s[i] = ","
            /\ SkipWs(s, i + 1) <= Len(s)
            /\ s[SkipWs(s, i + 1)] \in {"}", "]"}
        starts == SelectSeq([i \in 1..Len(s) |-> i], isMatch)
    IN  [k \in 1..Len(starts) |->
            [from |-> starts[k],
             to |-> SkipWs(s, starts[k] + 1),
             repl |-> <<s[SkipWs(s, starts[k] + 1)]>>]]

RemoveTrailingCommas(s) == Subst(s, TrailingCommaMatches(s))

IsIdentStart(c) == c \in AsciiLetters \cup {"_"}
IsIdentChar(c) == c \in AsciiLetters \cup Digits \cup {"_", "-"}

\* the last index of the run of identifier characters that starts at a
IdentEnd(s, a) ==
    LET stop == {j \in (a + 1)..Len(s) : ~IsIdentChar(s[j])}
    IN  IF stop = {} THEN Len(s) ELSE Min(stop) - 1

\* the matches of r'([{,]\s*)([A-Za-z_][A-Za-z0-9_-]*)\s*:', replaced by
\* r'\1"\2":'
UnquotedKeyMatches(s) ==
    LET colonAt(a) == SkipWs(s, IdentEnd(s, a) + 1)
        isMatch(i) ==
            /\ s[i] \in {"{", ","}
            /\ With(SkipWs(s, i + 1), LAMBDA a :
                    /\ a <= Len(s)
                    /\ IsIdentStart(s[a])
                    /\ With(colonAt(a), LAMBDA c : c <= Len(s) /\ s[c] = ":"))
        starts == SelectSeq([i \in 1..Len(s) |-> i], isMatch)
    IN  [k \in 1..Len(starts) |->
            With(SkipWs(s, starts[k] + 1), LAMBDA a :
                [from |-> starts[k],
                 to |-> colonAt(a),
                 repl |-> SubSeq(s, starts[k], a - 1) \o <<DQ>>
                          \o SubSeq(s, a, IdentEnd(s, a)) \o <<DQ, ":">>])]

QuoteKeys(s) == Subst(s, UnquotedKeyMatches(s))

\* the index where a quoted literal opened at index i by the quote q ends:
\* q (?:\\.|[^q\\])* q, where "." is any character but a newline; 0 when the
\* pattern does not match at i
QuotedEnd(s, i, q) ==
    With({j \in (i + 1)..Len(s) : s[j] = q /\ Unescaped(s, j)}, LAMBDA closers :
        IF closers = {} THEN 0
        ELSE With(Min(closers), LAMBDA e :
                IF \E k \in (i + 1)..(e - 2) : EscIntro(s, k) /\ s[k + 1] = NL THEN 0
                ELSE e))

\* the matches of r"'([^'\\]*(?:\\.[^'\\]*)*)'" from index p on, left to
\* right, each replaced by the literal in double quotes with '"' escaped
RECURSIVE SingleQuotedMatches(_, _)
SingleQuotedMatches(s, p) ==
    With({i \in p..Len(s) : s[i] = SQ /\ QuotedEnd(s, i, SQ) > 0}, LAMBDA starts :
        IF starts = {} THEN <<>>
        ELSE With(Min(starts), LAMBDA i :
                With(QuotedEnd(s, i, SQ), LAMBDA e :
                    << [from |-> i,
                        to |-> e,
                        repl |-> <<DQ>>
                                 \o ReplaceChar(SubSeq(s, i + 1, e - 1), DQ, <<BSL, DQ>>)
                                 \o <<DQ>>] >>
                    \o SingleQuotedMatches(s, e + 1))))

SingleToDoubleQuotes(s) == Subst(s, SingleQuotedMatches(s, 1))

dedupe_keep_order(values) ==
    LET first == SelectSeq([i \in 1..Len(values) |-> i],
                           LAMBDA i : \A j \in 1..(i - 1) : values[j] # values[i])
    IN  [k \in 1..Len(first) |-> values[first[k]]]

json_candidate_variants(candidate) ==
    With(RemoveTrailingCommas(candidate), LAMBDA no_trailing_comma :
        With(QuoteKeys(no_trailing_comma), LAMBDA quoted_keys :
            dedupe_keep_order(StrippedNonEmpty(
                <<candidate, no_trailing_comma, quoted_keys,
                  SingleToDoubleQuotes(quoted_keys)>>))))

----------------------------------------------------------------------------
(* json.loads: Python values *)

\* every Python value has the same shape: its type t, its text s (str, int)
\* and its children kids (list items, dict entries in insertion order)
Val(t, s, kids) == [t |-> t, s |-> s, kids |-> kids]

NoneValue == Val("None", <<>>, <<>>)
StrValue(s) == Val("str", s, <<>>)
IntValue(s) == Val("int", s, <<>>)
BoolValue(b) == Val("bool", IF b THEN <<"T", "r", "u", "e">> ELSE <<"F", "a", "l", "s", "e">>, <<>>)
ListValue(items) == Val("list", <<>>, [i \in 1..Len(items) |-> [k |-> NoneValue, v |-> items[i]]])
DictValue(entries) == Val("dict", <<>>, entries)

\* a dict entry: the key is a str value
Entry(key, value) == [k |-> StrValue(key), v |-> value]

\* d[key] = value on the entries of a dict
DictPut(entries, key, value) ==
    IF \E i \in 1..Len(entries) : entries[i].k.s = key
    THEN [i \in 1..Len(entries) |->
            IF entries[i].k.s = key THEN Entry(key, value) ELSE entries[i]]
    ELSE Append(entries, Entry(key, value))

\* dict.get(key): None when the key is absent
DictGet(d, key) ==
    IF d.t = "dict" /\ \E i \in 1..Len(d.kids) : d.kids[i].k.s = key
    THEN d.kids[CHOOSE i \in 1..Len(d.kids) : d.kids[i].k.s = key].v
    ELSE NoneValue

\* the items of a list value
Items(v) == [i \in 1..Len(v.kids) |-> v.kids[i].v]

ParseFail == [ok |-> FALSE, v |-> NoneValue, next |-> 0]
ParseOk(v, next) == [ok |-> TRUE, v |-> v, next |-> next]

JsonEscapes == {DQ, BSL, "/", "b", "f", "n", "r", "t"}

\* the character an escape sequence \c stands for (\b and \f are not part of
\* the texts modelled and stand for themselves)
Unescape(c) == IF c = "n" THEN NL ELSE IF c = "t" THEN TAB ELSE IF c = "r" THEN CR ELSE c

\* a JSON string that opens at index i: strict mode rejects control
\* characters; \uXXXX is outside the texts modelled and is rejected
ParseString(s, i) ==
    With({j \in (i + 1)..Len(s) : s[j] = DQ /\ Unescaped(s, j)}, LAMBDA closers :
        IF closers = {} THEN ParseFail
        ELSE With(SubSeq(s, i + 1, Min(closers) - 1), LAMBDA inner :
                IF \E k \in 1..Len(inner) :
                        \/ inner[k] \in {NL, TAB, CR}
                        \/ EscIntro(inner, k) /\ inner[k + 1] \notin JsonEscapes
                THEN ParseFail
                ELSE ParseOk(
                        StrValue(With(SelectSeq([k \in 1..Len(inner) |-> k],
                                                LAMBDA k : ~EscIntro(inner, k)),
                                      LAMBDA kept :
                                        [n \in 1..Len(kept) |->
                                            IF kept[n] > 1 /\ EscIntro(inner, kept[n] - 1)
                                            THEN Unescape(inner[kept[n]])
                                            ELSE inner[kept[n]]])),
                        i + Len(inner) + 2)))

\* -?(0|[1-9][0-9]*): the texts modelled have no fraction or exponent
ParseInt(s, i) ==
    With(IF s[i] = "-" THEN i + 1 ELSE i, LAMBDA d :
        IF d > Len(s) \/ s[d] \notin Digits THEN ParseFail
        ELSE With(IF s[d] = "0" THEN d
                  ELSE Min({j \in d..(Len(s) + 1) : j > Len(s) \/ s[j] \notin Digits}) - 1,
                  LAMBDA end : ParseOk(IntValue(SubSeq(s, i, end)), end + 1)))

LitTrue == <<"t", "r", "u", "e">>
LitFalse == <<"f", "a", "l", "s", "e">>
LitNull == <<"n", "u", "l", "l">>

RECURSIVE ParseValue(_, _), ParseMembers(_, _, _), ParseElements(_, _, _)

\* the JSON value that starts at index i of s
ParseValue(s, i) ==
    IF i > Len(s) THEN ParseFail
    ELSE IF s[i] = DQ THEN ParseString(s, i)
    ELSE IF s[i] \in {"{", "["} THEN
        With(SkipWs(s, i + 1), LAMBDA first :
            IF s[i] = "{"
            THEN IF first <= Len(s) /\ s[first] = "}"
                 THEN ParseOk(DictValue(<<>>), first + 1)
                 ELSE ParseMembers(s, first, <<>>)
            ELSE IF first <= Len(s) /\ s[first] = "]"
                 THEN ParseOk(ListValue(<<>>), first + 1)
                 ELSE ParseElements(s, first, <<>>))
    ELSE IF s[i] = "-" \/ s[i] \in Digits THEN ParseInt(s, i)
    ELSE IF At(s, i, LitTrue) THEN ParseOk(BoolValue(TRUE), i + 4)
    ELSE IF At(s, i, LitFalse) THEN ParseOk(BoolValue(FALSE), i + 5)
    ELSE IF At(s, i, LitNull) THEN ParseOk(NoneValue, i + 4)
    ELSE ParseFail

\* the members of an object from index i (a key is expected there) on
ParseMembers(s, i, acc) ==
    IF i > Len(s) \/ s[i] # DQ THEN ParseFail
    ELSE With(ParseString(s, i), LAMBDA key :
        IF ~key.ok THEN ParseFail
        ELSE With(SkipWs(s, key.next), LAMBDA colon :
            IF colon > Len(s) \/ s[colon] # ":" THEN ParseFail
            ELSE With(ParseValue(s, SkipWs(s, colon + 1)), LAMBDA value :
                IF ~value.ok THEN ParseFail
                ELSE With(SkipWs(s, value.next), LAMBDA after :
                    IF after > Len(s) THEN ParseFail
                    ELSE IF s[after] = "}"
                    THEN ParseOk(DictValue(DictPut(acc, key.v.s, value.v)), after + 1)
                    ELSE IF s[after] = ","
                    THEN ParseMembers(s, SkipWs(s, after + 1), DictPut(acc, key.v.s, value.v))
                    ELSE ParseFail))))

\* the elements of an array from index i (a value is expected there) on
ParseElements(s, i, acc) ==
    With(ParseValue(s, i), LAMBDA value :
        IF ~value.ok THEN ParseFail
        ELSE With(SkipWs(s, value.next), LAMBDA after :
            IF after > Len(s) THEN ParseFail
            ELSE IF s[after] = "]" THEN ParseOk(ListValue(Append(acc, value.v)), after + 1)
            ELSE IF s[after] = ","
            THEN ParseElements(s, SkipWs(s, after + 1), Append(acc, value.v))
            ELSE ParseFail))

\* json.loads(text): ok is FALSE where Python raises
json_loads(text) ==
    With(ParseValue(text, SkipWs(text, 1)), LAMBDA r :
        IF r.ok /\ SkipWs(text, r.next) > Len(text) THEN r ELSE ParseFail)

----------------------------------------------------------------------------
(* gemini_client.py: reading the summary and the key points of a payload *)

\* the number of consecutive characters c of s that end right before index j
CharRun(s, j, c) ==
    CHOOSE r \in 0..(j - 1) :
        /\ \A k \in 1..r : s[j - k] = c
        /\ r = j - 1 \/ s[j - r - 1] # c

\* str.replace(<<a, b>>, d): the occurrences of the two characters a b, left
\* to right and non-overlapping, replaced by the text d
ReplacePair(s, a, b, d) ==
    LET isStart(i) ==
            /\ i < Len(s)
            /\ s[i] = a
            /\ s[i + 1] = b
            /\ a = b => CharRun(s, i, a) % 2 = 0
        starts == SelectSeq([i \in 1..Len(s) |-> i], isStart)
    IN  Subst(s, [k \in 1..Len(starts) |->
                    [from |-> starts[k], to |-> starts[k] + 1, repl |-> d]])

decode_json_like_string(value) ==
    Strip(ReplacePair(
            ReplacePair(
              ReplacePair(
                ReplacePair(
                  ReplacePair(value, BSL, DQ, <<DQ>>),
                  BSL, SQ, <<SQ>>),
                BSL, "n", <<NL>>),
              BSL, "t", <<" ">>),
            BSL, BSL, <<BSL>>))

\* the pieces of s between the characters of seps (re.split on one character
\* of a class; empty pieces are kept)
Split(s, seps) ==
    LET at == SelectSeq([i \in 1..Len(s) |-> i], LAMBDA i : s[i] \in seps)
        n == Len(at)
    IN  [k \in 1..(n + 1) |->
            SubSeq(s,
                   IF k = 1 THEN 1 ELSE at[k - 1] + 1,
                   IF k = n + 1 THEN Len(s) ELSE at[k] - 1)]

\* ", ".join(parts)
JoinWith(parts, sep) ==
    Flat([k \in 1..Len(parts) |-> IF k = 1 THEN parts[k] ELSE sep \o parts[k]],
         1, Len(parts))

\* repr() of a str: single quotes unless the text has a single and no double
\* quote; backslash, newline, tab and carriage return are escaped
ReprStr(s) ==
    LET q == IF (\E i \in 1..Len(s) : s[i] = SQ) /\ (\A i \in 1..Len(s) : s[i] # DQ)
             THEN DQ ELSE SQ
    IN  <<q>>
        \o Flat([i \in 1..Len(s) |->
                    IF s[i] = BSL THEN <<BSL, BSL>>
                    ELSE IF s[i] = NL THEN <<BSL, "n">>
                    ELSE IF s[i] = TAB THEN <<BSL, "t">>
                    ELSE IF s[i] = CR THEN <<BSL, "r">>
                    ELSE IF s[i] = q THEN <<BSL, q>>
                    ELSE <<s[i]>>], 1, Len(s))
        \o <<q>>

\* repr() of a Python value
RECURSIVE PyRepr(_)
PyRepr(v) ==
    IF v.t = "str" THEN ReprStr(v.s)
    ELSE IF v.t = "list" THEN
        <<"[">> \o JoinWith([i \in 1..Len(v.kids) |-> PyRepr(v.kids[i].v)], <<",", " ">>) \o <<"]">>
    ELSE IF v.t = "dict" THEN
        <<"{">>
        \o JoinWith([i \in 1..Len(v.kids) |->
                        ReprStr(v.kids[i].k.s) \o <<":", " ">> \o PyRepr(v.kids[i].v)],
                    <<",", " ">>)
        \o <<"}">>
    ELSE IF v.t = "None" THEN <<"N", "o", "n", "e">>
    ELSE v.s

\* str(value)
PyStr(v) == IF v.t = "str" THEN v.s ELSE PyRepr(v)

SUMMARY_FIELD_KEYS ==
    << <<"s", "u", "m", "m", "a", "r", "y">>,
       <<"e", "x", "e", "c", "u", "t", "i", "v", "e", "_", "s", "u", "m", "m", "a", "r", "y">>,
       <<"o", "v", "e", "r", "v", "i", "e", "w">>,
       <<"m", "e", "e", "t", "i", "n", "g", "_", "s", "u", "m", "m", "a", "r", "y">> >>

KEY_POINTS_FIELD_KEYS ==
    << <<"k", "e", "y", "_", "p", "o", "i", "n", "t", "s">>,
       <<"k", "e", "y", "p", "o", "i", "n", "t", "s">>,
       <<"h", "i", "g", "h", "l", "i", "g", "h", "t", "s">>,
       <<"m", "a", "i", "n", "_", "p", "o", "i", "n", "t", "s">>,
       <<"t", "a", "k", "e", "a", "w", "a", "y", "s">>,
       <<"b", "u", "l", "l", "e", "t", "_", "p", "o", "i", "n", "t", "s">> >>

\* isinstance(value, str) and value.strip()
IsNonBlankStr(v) == v.t = "str" /\ Strip(v.s) # <<>>

pick_first_string_value(obj, keys) ==
    LET hit == {k \in 1..Len(keys) : IsNonBlankStr(DictGet(obj, keys[k]))}
    IN  IF hit = {} THEN <<>> ELSE Strip(DictGet(obj, keys[Min(hit)]).s)

\* [str(item).strip() for item in value if str(item).strip()]
StrippedItems(v) == StrippedNonEmpty([i \in 1..Len(v.kids) |-> PyStr(v.kids[i].v)])

\* [line.strip() for line in value.splitlines() if line.strip()]
StrippedLines(s) == StrippedNonEmpty(Split(s, {NL, CR}))

pick_string_list_value(obj, keys) ==
    With({k \in 1..Len(keys) :
            \/ DictGet(obj, keys[k]).t = "list"
            \/ IsNonBlankStr(DictGet(obj, keys[k]))}, LAMBDA hit :
        IF hit = {} THEN <<>>
        ELSE With(DictGet(obj, keys[Min(hit)]), LAMBDA value :
                IF value.t = "list" THEN StrippedItems(value) ELSE StrippedLines(value.s)))

DataKey == <<"d", "a", "t", "a">>

\* the pair <<summary, key_points>> read from a parsed payload
extract_summary_and_points_from_payload(payload) ==
    With(<<DictGet(payload, DataKey),
           pick_first_string_value(payload, SUMMARY_FIELD_KEYS),
           pick_string_list_value(payload, KEY_POINTS_FIELD_KEYS)>>, LAMBDA top :
        With(IF top[1].t = "dict"
             THEN <<IF top[2] = <<>>
                    THEN pick_first_string_value(top[1], SUMMARY_FIELD_KEYS) ELSE top[2],
                    IF top[3] = <<>>
                    THEN pick_string_list_value(top[1], KEY_POINTS_FIELD_KEYS) ELSE top[3]>>
             ELSE <<top[2], top[3]>>, LAMBDA picked :
            <<decode_json_like_string(picked[1]),
              [i \in 1..Len(picked[2]) |-> decode_json_like_string(picked[2][i])]>>))

----------------------------------------------------------------------------
(* gemini_client.py: the regex recoverers *)
Quotes == {DQ, SQ}

\* the length of the alternative of (?:key|key|...) that matches at index p
\* (IGNORECASE), 0 when none does
KeyLenAt(s, p, keys) ==
    LET hit == {k \in 1..Len(keys) : AtLower(s, p, keys[k])}
    IN  IF hit = {} THEN 0 ELSE Len(keys[Min(hit)])

\* the index after ["']? at index i
SkipQuote(s, i) == IF i <= Len(s) /\ s[i] \in Quotes THEN i + 1 ELSE i

\* the index of the character open that follows  key["']?\s*:\s*  when the key
\* starts at index p, 0 when the pattern does not match there
OpenerAfterKey(s, p, keys, open) ==
    With(KeyLenAt(s, p, keys), LAMBDA n :
        IF n = 0 THEN 0
        ELSE With(SkipWs(s, SkipQuote(s, p + n)), LAMBDA colon :
            IF colon > Len(s) \/ s[colon] # ":" THEN 0
            ELSE With(SkipWs(s, colon + 1), LAMBDA opener :
                IF opener <= Len(s) /\ s[opener] = open THEN opener ELSE 0)))

\* the lookahead (?=\s*,\s*["']?[A-Za-z_][A-Za-z0-9_-]*["']?\s*:|\s*[}]) at index j
SummaryLookahead(s, j) ==
    With(SkipWs(s, j), LAMBDA k :
        /\ k <= Len(s)
        /\ \/ s[k] = "}"
           \/ /\ s[k] = ","
              /\ With(SkipQuote(s, SkipWs(s, k + 1)), LAMBDA ident :
                    /\ ident <= Len(s)
                    /\ IsIdentStart(s[ident])
                    /\ With(SkipWs(s, SkipQuote(s, IdentEnd(s, ident) + 1)), LAMBDA colon :
                            colon <= Len(s) /\ s[colon] = ":")))

\* group(1) of the first match of the summary pattern whose literal is quoted
\* by q: <<found, text>>
SummaryMatch(s, q) ==
    LET closerOf(p) ==
            With(OpenerAfterKey(s, p, SUMMARY_FIELD_KEYS, q), LAMBDA o :
                IF o = 0 THEN 0
                ELSE With({e \in (o + 1)..Len(s) : s[e] = q /\ SummaryLookahead(s, e + 1)},
                          LAMBDA closers : IF closers = {} THEN 0 ELSE Min(closers)))
    IN  With({p \in 1..Len(s) : closerOf(p) > 0}, LAMBDA starts :
            IF starts = {} THEN <<FALSE, <<>>>>
            ELSE With(Min(starts), LAMBDA p :
                    <<TRUE, SubSeq(s, OpenerAfterKey(s, p, SUMMARY_FIELD_KEYS, q) + 1,
                                   closerOf(p) - 1)>>))

\* the two summary patterns in order on an already cleaned text
SummaryByRegex(text) ==
    With(<<SummaryMatch(text, DQ), SummaryMatch(text, SQ)>>, LAMBDA m :
        IF m[1][1] /\ Strip(m[1][2]) # <<>> THEN decode_json_like_string(m[1][2])
        ELSE IF m[2][1] /\ Strip(m[2][2]) # <<>> THEN decode_json_like_string(m[2][2])
        ELSE <<>>)

extract_summary_field_by_regex(rawText) == SummaryByRegex(strip_code_fences(rawText))

\* group(1) of the first match of  key["']?\s*:\s*\[([\s\S]*?)\]  : <<found, text>>
KeyPointsSpan(s) ==
    LET closerOf(p) ==
            With(OpenerAfterKey(s, p, KEY_POINTS_FIELD_KEYS, "["), LAMBDA o :
                IF o = 0 THEN 0
                ELSE With({e \in (o + 1)..Len(s) : s[e] = "]"},
                          LAMBDA closers : IF closers = {} THEN 0 ELSE Min(closers)))
    IN  With({p \in 1..Len(s) : closerOf(p) > 0}, LAMBDA starts :
            IF starts = {} THEN <<FALSE, <<>>>>
            ELSE With(Min(starts), LAMBDA p :
                    <<TRUE, SubSeq(s, OpenerAfterKey(s, p, KEY_POINTS_FIELD_KEYS, "[") + 1,
                                   closerOf(p) - 1)>>))

\* re.finditer of the double- or single-quoted literal from index p on: the
\* decoded literals that are not empty
RECURSIVE QuotedItems(_, _)
QuotedItems(s, p) ==
    With({i \in p..Len(s) : s[i] \in Quotes /\ QuotedEnd(s, i, s[i]) > 0}, LAMBDA starts :
        IF starts = {} THEN <<>>
        ELSE With(Min(starts), LAMBDA i :
                With(QuotedEnd(s, i, s[i]), LAMBDA e :
                    With(decode_json_like_string(SubSeq(s, i + 1, e - 1)), LAMBDA decoded :
                        (IF decoded # <<>> THEN <<decoded>> ELSE <<>>)
                            \o QuotedItems(s, e + 1)))))

\* str.strip(chars)
StripChars(s, chars) ==
    With({i \in 1..Len(s) : s[i] \notin chars}, LAMBDA ink :
        IF ink = {} THEN <<>> ELSE SubSeq(s, Min(ink), Max(ink)))

SegmentStrip == {" ", TAB, CR, NL, "-", BULLET, DQ, SQ}

\* the segments of re.split(r"[\n,;]+", span), stripped, that are not empty
SplitSegments(span) ==
    With(Split(span, {NL, ",", ";"}), LAMBDA parts :
        With(SelectSeq([k \in 1..Len(parts) |-> StripChars(parts[k], SegmentStrip)],
                       LAMBDA x : x # <<>>),
             LAMBDA kept : kept))

extract_key_points_by_regex(rawText) ==
    With(KeyPointsSpan(strip_code_fences(rawText)), LAMBDA span :
        IF ~span[1] \/ span[2] = <<>> THEN <<>>
        ELSE With(QuotedItems(span[2], 1), LAMBDA points :
                IF points # <<>> THEN points ELSE SplitSegments(span[2])))

----------------------------------------------------------------------------
(* minutes_service.py: placeholders and key points *)
PlaceholderMarkers ==
    { <<"k", "h", "o", "n", "g", " ", "r", "o">>,
      <<"k", "h", "U+00F4", "n", "g", " ", "r", "U+00F5">>,
      <<"k", "h", "o", "n", "g", " ", "c", "o">>,
      <<"k", "h", "U+00F4", "n", "g", " ", "c", "U+00F3">>,
      <<"u", "n", "k", "n", "o", "w", "n">>,
      <<"n", "o", "t", " ", "s", "p", "e", "c", "i", "f", "i", "e", "d">>,
      <<"n", "/", "a">>,
      <<"n", "o", "n", "e">>,
      <<"n", "u", "l", "l">>,
      <<"t", "i", "m", "e", "s", "t", "a", "m", "p", ":", " ", "k", "h", "o", "n", "g", " ", "r", "o">>,
      <<"t", "i", "m", "e", "s", "t", "a", "m", "p", ":", " ", "k", "h", "U+00F4", "n", "g", " ", "r", "U+00F5">> }

is_placeholder_value(text_value) ==
    With(Lower(Strip(text_value)), LAMBDA value :
        value = <<>> \/ \E marker \in PlaceholderMarkers : Contains(value, marker))

PointKeys ==
    << <<"p", "o", "i", "n", "t">>,
       <<"t", "e", "x", "t">>,
       <<"s", "u", "m", "m", "a", "r", "y">>,
       <<"c", "o", "n", "t", "e", "n", "t">>,
       <<"d", "e", "s", "c", "r", "i", "p", "t", "i", "o", "n">>,
       <<"t", "i", "t", "l", "e">> >>

\* _add_candidate: what one value appends to normalized (nothing, or one text)
add_candidate(value) ==
    IF value.t = "str" THEN
        With(Strip(value.s), LAMBDA item :
            IF item # <<>> /\ ~is_placeholder_value(item) THEN <<item>> ELSE <<>>)
    ELSE IF value.t = "dict" THEN
        With({k \in 1..Len(PointKeys) :
                With(DictGet(value, PointKeys[k]), LAMBDA nested :
                    IsNonBlankStr(nested) /\ ~is_placeholder_value(nested.s))}, LAMBDA hit :
            IF hit = {} THEN <<>> ELSE <<Strip(DictGet(value, PointKeys[Min(hit)]).s)>>)
    ELSE <<>>

\* re.split(r"[\n;]+", text): a run of separators splits once, a separator
\* at either end leaves an empty piece
SplitRuns(s, seps) ==
    With(Split(s, seps), LAMBDA parts :
        SelectSeq([k \in 1..Len(parts) |-> [i |-> k, p |-> parts[k]]],
                  LAMBDA x : x.p # <<>> \/ x.i = 1 \/ x.i = Len(parts)))

LeadingMarkers == {"-", "*", BULLET, ".", ")"} \cup Digits \cup WS

\* re.sub(r"^[-*.)digits bullet whitespace]+", "", item).strip()
StripLeadingMarkers(item) ==
    LET rest == {i \in 1..Len(item) : item[i] \notin LeadingMarkers}
    IN  IF rest = {} THEN <<>> ELSE Strip(From(item, Min(rest)))

\* re.sub(r"\s+", " ", text)
CollapseWhitespace(s) ==
    With(SelectSeq([i \in 1..Len(s) |-> i],
                   LAMBDA i : s[i] \notin WS \/ i = 1 \/ s[i - 1] \notin WS), LAMBDA kept :
        [k \in 1..Len(kept) |-> IF s[kept[k]] \in WS THEN " " ELSE s[kept[k]]])

\* the cleaning of one normalized entry before de-duplication
CleanPoint(item) == CollapseWhitespace(StripLeadingMarkers(item))

\* the entries appended to normalized, in order
CollectCandidates(raw_points) ==
    With(IF raw_points.t = "str"
         THEN With(SplitRuns(raw_points.s, {NL, ";"}), LAMBDA parts :
                [k \in 1..Len(parts) |-> StrValue(parts[k].p)])
         ELSE IF raw_points.t = "list" THEN Items(raw_points)
         ELSE IF raw_points.t = "dict" THEN <<raw_points>>
         ELSE <<>>, LAMBDA values :
        Flat([k \in 1..Len(values) |-> add_candidate(values[k])], 1, Len(values)))

\* a loop that keeps every entry whose cleaned text is not empty, seen
\* before or not
KeepAllPoints(normalized) ==
    SelectSeq([i \in 1..Len(normalized) |-> CleanPoint(normalized[i])],
              LAMBDA point : point # <<>>)

\* the de-duplication loop: an entry is kept when its cleaned text is not
\* empty and its lower-cased text was not seen before
DedupePoints(normalized) ==
    With([i \in 1..Len(normalized) |-> CleanPoint(normalized[i])], LAMBDA cleaned :
        With([i \in 1..Len(cleaned) |-> Lower(cleaned[i])], LAMBDA keys :
            With(SelectSeq([i \in 1..Len(cleaned) |-> i],
                    LAMBDA i : /\ cleaned[i] # <<>>
                               /\ \A j \in 1..(i - 1) : keys[j] # keys[i]), LAMBDA first :
                [k \in 1..Len(first) |-> cleaned[first[k]]])))

normalize_key_points(raw_points) == DedupePoints(CollectCandidates(raw_points))

\* a list of str values
StrList(texts) == ListValue([i \in 1..Len(texts) |-> StrValue(texts[i])])

----------------------------------------------------------------------------
(* minutes_service.py: _extract_embedded_summary_payload *)

decode_jsonish_text(value) == decode_json_like_string(value)

EmbeddedFenceTags ==
    << <<"j", "s", "o", "n">>,
       <<"t", "e", "x", "t">>,
       <<"m", "d">>,
       <<"m", "a", "r", "k", "d", "o", "w", "n">> >>

\* the text the extractor works on: quotes replaced, fence removed
EmbeddedCleaned(text_value) ==
    With(AsciiQuotes(text_value), LAMBDA cleaned :
        IF StartsWith(cleaned, Fence)
        THEN Strip(StripClosingFence(StripOpeningFence(cleaned, EmbeddedFenceTags)))
        ELSE cleaned)

EmbeddedCandidates(cleaned) ==
    LET start == Find(cleaned, "{")
        end == RFind(cleaned, "}")
    IN  IF 0 < start /\ start < end
        THEN <<cleaned, SubSeq(cleaned, start, end)>>
        ELSE <<cleaned>>

\* the variants of one candidate: the key quoting is applied to the
\* candidate itself
EmbeddedVariants(candidate) ==
    With(QuoteKeys(candidate), LAMBDA quoted_keys :
        <<candidate,
          RemoveTrailingCommas(candidate),
          quoted_keys,
          SingleToDoubleQuotes(quoted_keys)>>)

\* the first key of keys whose value is a list, as stripped texts
PickListValue(obj, keys) ==
    With({k \in 1..Len(keys) : DictGet(obj, keys[k]).t = "list"}, LAMBDA hit :
        IF hit = {} THEN <<>> ELSE StrippedItems(DictGet(obj, keys[Min(hit)])))

\* <<summary, key_points>> read from one variant, both empty when the variant
\* does not parse to a dict
EmbeddedFromVariant(variant) ==
    With(json_loads(variant), LAMBDA r :
        IF ~(r.ok /\ r.v.t = "dict") THEN << <<>>, <<>> >>
        ELSE With(<<DictGet(r.v, DataKey),
                    pick_first_string_value(r.v, SUMMARY_FIELD_KEYS),
                    PickListValue(r.v, KEY_POINTS_FIELD_KEYS)>>, LAMBDA top :
                IF top[1].t = "dict"
                THEN <<IF top[2] = <<>>
                       THEN pick_first_string_value(top[1], SUMMARY_FIELD_KEYS) ELSE top[2],
                       IF top[3] = <<>>
                       THEN PickListValue(top[1], KEY_POINTS_FIELD_KEYS) ELSE top[3]>>
                ELSE <<top[2], top[3]>>))

\* the key points the extractor's regex recovers: quoted literals only
EmbeddedPointsByRegex(cleaned) ==
    With(KeyPointsSpan(cleaned), LAMBDA span :
        IF ~span[1] \/ span[2] = <<>> THEN <<>> ELSE QuotedItems(span[2], 1))

extract_embedded_summary_payload(raw_text) ==
    With(Strip(raw_text), LAMBDA text_value :
        IF text_value = <<>> THEN << <<>>, <<>> >>
        ELSE With(EmbeddedCleaned(text_value), LAMBDA cleaned :
            With(EmbeddedCandidates(cleaned), LAMBDA candidates :
                With(Flat([c \in 1..Len(candidates) |-> EmbeddedVariants(candidates[c])],
                          1, Len(candidates)), LAMBDA order :
                    With([k \in 1..Len(order) |-> EmbeddedFromVariant(order[k])], LAMBDA found :
                        With({k \in 1..Len(order) : found[k] # << <<>>, <<>> >>}, LAMBDA hit :
                            IF hit # {}
                            THEN With(found[Min(hit)], LAMBDA first :
                                    <<decode_jsonish_text(first[1]),
                                      [i \in 1..Len(first[2]) |->
                                            decode_jsonish_text(first[2][i])]>>)
                            ELSE <<SummaryByRegex(cleaned),
                                   EmbeddedPointsByRegex(cleaned)>>))))))

----------------------------------------------------------------------------
(* gemini_client.py: _parse_json_object_relaxed *)

\* a check that lets every parsed value through
IsParsed(r) == r.ok

\* isinstance(parsed, dict) on the outcome of json.loads
IsObject(r) == r.ok /\ r.v.t = "dict"

\* the variants of every candidate, in the order the two loops try them
AttemptOrder(rawText) ==
    With(json_object_candidates(rawText), LAMBDA cands :
        Flat([c \in 1..Len(cands) |-> json_candidate_variants(cands[c])], 1, Len(cands)))

\* the first variant that json.loads turns into a dict, None when there is none
parse_json_object_relaxed(rawText) ==
    With(AttemptOrder(rawText), LAMBDA order :
        With([k \in 1..Len(order) |-> json_loads(order[k])], LAMBDA loaded :
            With({k \in 1..Len(order) : IsObject(loaded[k])}, LAMBDA hit :
                IF hit = {} THEN NoneValue ELSE loaded[Min(hit)].v)))

----------------------------------------------------------------------------
(* The texts handed to _parse_json_object_relaxed *)

\* well-formed JSON objects, some with typographic quotes, commas and colons in values
WellFormedBodies ==
    << <<"{", "\"", "s", "u", "m", "m", "a", "r", "y", "\"", ":", " ", "\"", "A", "l", "l", " ", "g", "o", "o", "d", "\"", ",", " ", "\"", "k", "e", "y", "_", "p", "o", "i", "n", "t", "s", "\"", ":", " ", "[", "\"", "A", "\"", ",", " ", "\"", "B", "\"", "]", "}">>,
       <<"{", "\"", "a", "\"", ":", "\"", "x", "U+2019", "y", "\"", "}">>,
       <<"{", "\"", "a", "\"", ":", "\"", "s", "a", "y", " ", "U+201C", "h", "i", "U+201D", "\"", "}">>,
       <<"{", "\"", "a", "\"", ":", " ", "\"", "x", ",", " ", "b", ":", " ", "y", "\"", "}">>,
       <<"{", "\"", "a", "\"", ":", " ", "\"", "x", ",", "}", "\"", "}">>,
       <<"{", "\"", "n", "\"", ":", " ", "1", ",", " ", "\"", "o", "k", "\"", ":", " ", "t", "r", "u", "e", ",", " ", "\"", "n", "o", "n", "e", "\"", ":", " ", "n", "u", "l", "l", "}">>,
       <<"{", "\"", "a", "\"", ":", " ", "{", "\"", "b", "\"", ":", " ", "\"", "c", "\"", "}", "}">>,
       <<"{", "\"", "a", "\"", ":", " ", "\"", "i", "t", "'", "s", "\"", "}">> >>

\* texts that are arrays, scalars, prose around an object, or no JSON at all
OtherTexts ==
    << <<"[", "1", ",", " ", "2", "]">>,
       <<"\"", "j", "u", "s", "t", " ", "t", "e", "x", "t", "\"">>,
       <<"4", "2">>,
       <<"R", "e", "s", "u", "l", "t", ":", " ", "{", "\"", "s", "u", "m", "m", "a", "r", "y", "\"", ":", " ", "\"", "o", "k", "\"", "}", " ", "t", "h", "a", "n", "k", "s">>,
       <<"{", "\"", "a", "\"", ":", " ", "1", "}", " ", "a", "n", "d", " ", "{", "\"", "b", "\"", ":", " ", "2", "}">>,
       <<"[", "{", "\"", "a", "\"", ":", " ", "1", "}", "]">>,
       <<>>,
       <<"n", "o", " ", "j", "s", "o", "n", " ", "h", "e", "r", "e">>,
       <<"{", "b", "r", "o", "k", "e", "n">>,
       <<"{", "\"", "a", "\"", ":", " ", "1", ",", "}", " ", "t", "r", "a", "i", "l", "i", "n", "g">> >>

\* the ways a response wraps its JSON: bare, in a json fence, in an untagged
\* fence, between blank space
FenceStyles == {"none", "json", "untagged", "padded"}

Wrap(style, text) ==
    CASE style = "json" ->
            Fence \o <<"j", "s", "o", "n", NL>> \o text \o <<NL>> \o Fence
      [] style = "untagged" -> Fence \o <<NL>> \o text \o <<NL>> \o Fence
      [] style = "padded" -> <<" ", NL>> \o text \o <<NL, " ">>
      [] OTHER -> text

\* the objects the relaxed writings below are meant to denote
IntendedObjects ==
    { DictValue(<<Entry(<<"s", "u", "m", "m", "a", "r", "y">>, StrValue(<<"A", "l", "l", " ", "g", "o", "o", "d">>))>>),
      DictValue(<<Entry(<<"s", "u", "m", "m", "a", "r", "y">>, StrValue(<<"O", "K">>)),
                  Entry(<<"k", "e", "y", "_", "p", "o", "i", "n", "t", "s">>,
                        ListValue(<<StrValue(<<"A">>), StrValue(<<"B">>)>>))>>),
      DictValue(<<Entry(<<"s", "u", "m", "m", "a", "r", "y">>,
                        StrValue(<<"T", "e", "a", "m", " ", "a", "g", "r", "e", "e", "d", ",", " ",
                                   "n", "e", "x", "t", ":", " ", "s", "h", "i", "p">>))>>),
      DictValue(<<Entry(<<"a">>, StrValue(<<"i", "t", "'", "s", " ", "f", "i", "n", "e">>))>>),
      DictValue(<<Entry(<<"a">>, StrValue(<<"x", ",", "}">>))>>),
      DictValue(<<Entry(<<"c", "o", "u", "n", "t">>, IntValue(<<"2">>)),
                  Entry(<<"d", "o", "n", "e">>, BoolValue(TRUE))>>) }

\* the deviations from JSON a writing may have: a comma after the last member
\* of every object and array, keys without quotes, strings in single quotes
RelaxedStyles ==
    {st \in [trailing : BOOLEAN, bare : BOOLEAN, single : BOOLEAN] :
        st.trailing \/ st.bare \/ st.single}

\* the text of value v written in style st
RECURSIVE WriteRelaxed(_, _)
WriteRelaxed(v, st) ==
    LET q == IF st.single THEN SQ ELSE DQ
        quoted(s) == <<q>> \o Flat([i \in 1..Len(s) |->
                                      IF s[i] \in {q, BSL} THEN <<BSL, s[i]>> ELSE <<s[i]>>],
                                   1, Len(s)) \o <<q>>
        tail == IF st.trailing THEN <<",">> ELSE <<>>
        member(e) == (IF st.bare THEN e.k.s ELSE quoted(e.k.s))
                        \o <<":", " ">> \o WriteRelaxed(e.v, st)
        inner == JoinWith([i \in 1..Len(v.kids) |->
                              IF v.t = "dict" THEN member(v.kids[i])
                              ELSE WriteRelaxed(v.kids[i].v, st)], <<",", " ">>)
    IN  CASE v.t = "str" -> quoted(v.s)
          [] v.t = "int" -> v.s
          [] v.t = "bool" -> Lower(v.s)
          [] v.t = "list" -> <<"[">> \o inner \o (IF v.kids = <<>> THEN <<>> ELSE tail) \o <<"]">>
          [] v.t = "dict" -> <<"{">> \o inner \o (IF v.kids = <<>> THEN <<>> ELSE tail) \o <<"}">>
          [] OTHER -> <<"n", "u", "l", "l">>

----------------------------------------------------------------------------
(* _parse_json_object_relaxed as a state machine: one json.loads per step *)

\* the variables of the operations a behaviour does not run
ParseIdle ==
    /\ kind = "none"
    /\ raw = <<>>
    /\ body = <<>>
    /\ intended = NoneValue
    /\ ci = 0
    /\ vi = 0
    /\ parsed = NoneValue

PointsIdle ==
    /\ pointsIn = NoneValue
    /\ pointsOut = <<>>

MinutesIdle ==
    /\ meeting = NoneValue
    /\ request = NoneValue
    /\ language = <<>>
    /\ llm = NoneValue
    /\ response = <<>>
    /\ summary_result = NoneValue
    /\ render_args = NoneValue
    /\ minutes = <<>>

RowsIdle ==
    /\ row_type = "none"
    /\ raw_rows = NoneValue
    /\ rowsOut = <<>>

RenderIdle ==
    /\ renderIn = NoneValue
    /\ renderOut = <<>>

LanguageIdle ==
    /\ llm_output_language = <<>>
    /\ selection = NoneValue

RecoverIdle ==
    /\ recoverIn = <<>>
    /\ recoverOut = NoneValue

NormalizeIdle ==
    /\ normIn = NoneValue
    /\ normOut = <<>>

EmbeddedIdle ==
    /\ embeddedIn = <<>>
    /\ embeddedOut = NoneValue

StoreIdle ==
    /\ meeting_minutes = <<>>
    /\ sessions = <<>>

LoginIdle ==
    /\ failed_attempts = <<>>
    /\ blocked_until = <<>>
    /\ clock = 0
    /\ logins = <<>>

ServicesIdle ==
    /\ NormalizeIdle
    /\ EmbeddedIdle
    /\ StoreIdle
    /\ LoginIdle
    /\ windowing = NoneValue
    /\ deletion = NoneValue

OthersIdle == RowsIdle /\ RenderIdle /\ LanguageIdle /\ RecoverIdle /\ ServicesIdle

ParseInit ==
    /\ PointsIdle
    /\ MinutesIdle
    /\ OthersIdle
    /\ pc = "loop"
    /\ ci = 1
    /\ vi = 1
    /\ parsed = NoneValue
    /\ \/ /\ kind = "wellformed"
          /\ \E b \in 1..Len(WellFormedBodies), style \in FenceStyles :
                /\ body = WellFormedBodies[b]
                /\ raw = Wrap(style, WellFormedBodies[b])
          /\ intended = json_loads(body).v
       \/ /\ kind = "relaxed"
          /\ \E o \in IntendedObjects, st \in RelaxedStyles :
                /\ intended = o
                /\ body = WriteRelaxed(o, st)
                /\ raw = WriteRelaxed(o, st)
       \/ /\ kind = "other"
          /\ \E t \in 1..Len(OtherTexts) :
                /\ body = OtherTexts[t]
                /\ raw = OtherTexts[t]
          /\ intended = NoneValue

\* the variants of the candidate the outer loop is at
CurrentVariants == json_candidate_variants(json_object_candidates(raw)[ci])

\* the outcome of json.loads on the variant the loops are at
Attempt == json_loads(CurrentVariants[vi])

\* the inner loop moves to the next variant, the outer one to the next candidate
Advance ==
    /\ IF vi < Len(CurrentVariants)
       THEN vi' = vi + 1 /\ ci' = ci
       ELSE vi' = 1 /\ ci' = ci + 1
    /\ UNCHANGED <<pc, parsed>>

\* json.loads raises: except Exception: continue
ParseRaises ==
    /\ pc = "loop"
    /\ ci <= Len(json_object_candidates(raw))
    /\ ~Attempt.ok
    /\ Advance
    /\ UNCHANGED <<kind, raw, body, intended, pointsVars, minutesVars, otherVars>>

\* json.loads returns a value that is not a dict: the loop goes on
ParseSkipsNonObject ==
    /\ pc = "loop"
    /\ ci <= Len(json_object_candidates(raw))
    /\ \E r \in {Attempt} : r.ok /\ ~IsObject(r)
    /\ Advance
    /\ UNCHANGED <<kind, raw, body, intended, pointsVars, minutesVars, otherVars>>

\* json.loads returns a dict: return parsed
ParseReturnsObject ==
    /\ pc = "loop"
    /\ ci <= Len(json_object_candidates(raw))
    /\ \E r \in {Attempt} : IsObject(r) /\ parsed' = r.v
    /\ pc' = "returned"
    /\ UNCHANGED <<kind, raw, body, intended, ci, vi, pointsVars, minutesVars, otherVars>>

\* both loops are exhausted: return None
ParseReturnsNone ==
    /\ pc = "loop"
    /\ ci > Len(json_object_candidates(raw))
    /\ parsed' = NoneValue
    /\ pc' = "returned"
    /\ UNCHANGED <<kind, raw, body, intended, ci, vi, pointsVars, minutesVars, otherVars>>

ParseNext ==
    \/ ParseRaises
    \/ ParseSkipsNonObject
    \/ ParseReturnsObject
    \/ ParseReturnsNone

SpecParse == ParseInit /\ [][ParseNext]_vars

----------------------------------------------------------------------------
(* _normalize_key_points as a state machine: one call *)

\* the texts the lists handed to _normalize_key_points are made of: real
\* points, the same point in another casing or behind a marker, placeholders,
\* blanks
PointTexts ==
    << <<"D", "o", " ", "X">>,
       <<"d", "o", " ", "x">>,
       <<"D", "o", " ", "X", " ">>,
       <<"U", "n", "k", "n", "o", "w", "n">>,
       <<" ", " ">>,
       <<"K", "h", "U+00F4", "n", "g", " ", "r", "U+00F5">>,
       <<"S", "h", "i", "p", " ", "v", "2">>,
       <<"-", " ", "S", "h", "i", "p", " ", "v", "2">>,
       <<"1", ".", " ", "n", "/", "a">>,
       <<"n", "o", "t", " ", " ", "s", "p", "e", "c", "i", "f", "i", "e", "d">>,
       <<"F", "i", "x", " ", "n", "u", "l", "l", " ", "p", "o", "i", "n", "t", "e", "r", " ", "b", "u", "g">>,
       <<"-", " ", "-">> >>

\* key points given as one text, separated by newlines and semicolons
PointLines ==
    { <<"D", "o", " ", "X", "\n", "-", " ", "S", "h", "i", "p", " ", "v", "2", ";", "u", "n", "k", "n", "o", "w", "n">>,
      <<";", "S", "h", "i", "p", " ", "v", "2", ";", ";", "d", "o", " ", "x", "\n">> }

\* the longest list of key points handed to _normalize_key_points
MaxPoints == 2

PointsInit ==
    /\ ParseIdle
    /\ MinutesIdle
    /\ OthersIdle
    /\ pc = "call"
    /\ pointsOut = <<>>
    /\ \/ \E n \in 0..MaxPoints : \E f \in [1..n -> 1..Len(PointTexts)] :
            pointsIn = StrList([i \in 1..n |-> PointTexts[f[i]]])
       \/ \E t \in PointLines : pointsIn = StrValue(t)
       \/ \E k \in 1..Len(PointKeys), i \in 1..Len(PointTexts) :
            pointsIn = DictValue(<<Entry(PointKeys[k], StrValue(PointTexts[i]))>>)
       \/ pointsIn = NoneValue

\* the call of _normalize_key_points
NormalizeKeyPoints ==
    /\ pc = "call"
    /\ pointsOut' = normalize_key_points(pointsIn)
    /\ pc' = "returned"
    /\ UNCHANGED <<pointsIn, parseVars, minutesVars, otherVars>>

PointsNext == NormalizeKeyPoints

SpecPoints == PointsInit /\ [][PointsNext]_vars

----------------------------------------------------------------------------
(* gemini_client.py: GeminiChat *)

\* the reply of a chat that runs without a provider
MockResponse ==
    <<"A", "I", " ", "i", "s", " ", "r", "u", "n", "n", "i", "n", "g", " ", "i", "n", " ", "m",
      "o", "c", "k", " ", "m", "o", "d", "e", " ", "(", "n", "o", " ", "A", "P", "I", " ", "k",
      "e", "y", " ", "c", "o", "n", "f", "i", "g", "u", "r", "e", "d", ")", ".">>

\* mock_reason by provider override ("auto" stands for no override)
MockReasons ==
    [groq |->
        <<"G", "r", "o", "q", " ", "i", "s", " ", "s", "e", "l", "e", "c", "t", "e", "d", " ", "b",
          "u", "t", " ", "n", "o", " ", "G", "r", "o", "q", " ", "A", "P", "I", " ", "k", "e", "y",
          " ", "i", "s", " ", "c", "o", "n", "f", "i", "g", "u", "r", "e", "d", ".">>,
     gemini |->
        <<"G", "e", "m", "i", "n", "i", " ", "i", "s", " ", "s", "e", "l", "e", "c", "t", "e", "d",
          " ", "b", "u", "t", " ", "n", "o", " ", "G", "e", "m", "i", "n", "i", " ", "A", "P", "I",
          " ", "k", "e", "y", " ", "i", "s", " ", "c", "o", "n", "f", "i", "g", "u", "r", "e", "d",
          ".">>,
     auto |->
        <<"N", "o", " ", "A", "I", " ", "A", "P", "I", " ", "k", "e", "y", " ", "i", "s", " ", "c",
          "o", "n", "f", "i", "g", "u", "r", "e", "d", ".">>]

\* _select_provider on a configuration: the override, and for each provider
\* whether a key (and, for Gemini, the client library) is available
select_provider(cfg) ==
    IF cfg.override = "gemini" THEN (IF cfg.gemini_key THEN "gemini" ELSE "mock")
    ELSE IF cfg.override = "groq" THEN (IF cfg.groq_key THEN "groq" ELSE "mock")
    ELSE IF cfg.gemini_key THEN "gemini"
    ELSE IF cfg.groq_key THEN "groq"
    ELSE "mock"

\* self.mock_response after GeminiChat.__init__
mock_response(cfg) ==
    IF select_provider(cfg) = "mock"
    THEN MockResponse \o <<" ", "(">> \o MockReasons[cfg.override] \o <<")">>
    ELSE MockResponse

\* GeminiChat.chat: the provider call either raises (outcome "error") or
\* returns cfg.reply; chat itself always returns a text
chat(cfg) ==
    IF select_provider(cfg) = "mock" THEN mock_response(cfg)
    ELSE IF cfg.outcome = "error" THEN mock_response(cfg)
    ELSE IF Strip(cfg.reply) = <<>> THEN mock_response(cfg)
    ELSE Strip(cfg.reply)

----------------------------------------------------------------------------
(* gemini_client.py: the texts of generate_summary_with_context *)

\* the texts generate_summary_with_context builds its summary and its key
\* points from, by output language
AssistantTexts ==
    [vi |->
        [prelim |-> 
            <<"T", "U+00F3", "m", " ", "t", "U+1EAF", "t", " ", "s", "U+01A1", " ", "b", "U+1ED9",
              " ", "c", "h", "o", " ", "'">>,
         need_evidence |-> 
            <<"C", "U+1EA7", "n", " ", "t", "h", "U+00EA", "m", " ", "b", "U+1EB1", "n", "g", " ",
              "c", "h", "U+1EE9", "n", "g", " ", "t", "r", "a", "n", "s", "c", "r", "i", "p", "t",
              " ", "U+0111", "U+1EC3", " ", "t", "U+0103", "n", "g", " ", "U+0111", "U+1ED9", " ",
              "c", "h", "i", " ", "t", "i", "U+1EBF", "t", " ", "v", "U+00E0", " ", "U+0111",
              "U+1ED9", " ", "t", "i", "n", " ", "c", "U+1EAD", "y", ".">>,
         refine_draft |-> 
            <<"B", "U+1EA3", "n", " ", "n", "h", "U+00E1", "p", " ", "n", "U+00E0", "y", " ", "n",
              "U+00EA", "n", " ", "U+0111", "U+01B0", "U+1EE3", "c", " ", "t", "i", "n", "h", " ",
              "c", "h", "U+1EC9", "n", "h", " ", "b", "U+1EB1", "n", "g", " ", "t", "r", "a", "n",
              "s", "c", "r", "i", "p", "t", " ", "U+0111", "U+1EA7", "y", " ", "U+0111", "U+1EE7",
              ".">>,
         captured |-> 
            <<"U+0111", "U+00E3", " ", "g", "h", "i", " ", "n", "h", "U+1EAD", "n", " ">>,
         actions_and |-> 
            <<" ", "U+0111", "U+1EA7", "u", " ", "v", "i", "U+1EC7", "c", ",", " ">>,
         decisions_and |-> 
            <<" ", "q", "u", "y", "U+1EBF", "t", " ", "U+0111", "U+1ECB", "n", "h", " ", "v",
              "U+00E0", " ">>,
         risks_end |-> 
            <<" ", "r", "U+1EE7", "i", " ", "r", "o", ".", " ">>,
         need_narrative |-> 
            <<"C", "U+1EA7", "n", " ", "t", "r", "a", "n", "s", "c", "r", "i", "p", "t", " ", "h",
              "o", "U+1EB7", "c", " ", "g", "h", "i", " ", "c", "h", "U+00FA", " ", "U+0111",
              "U+1EA7", "y", " ", "U+0111", "U+1EE7", " ", "U+0111", "U+1EC3", " ", "t", "U+1EA1",
              "o", " ", "p", "h", "U+1EA7", "n", " ", "t", "U+01B0", "U+1EDD", "n", "g", " ", "t",
              "h", "u", "U+1EAD", "t", " ", "c", "h", "i", " ", "t", "i", "U+1EBF", "t", ".">>,
         docs_available |-> 
            <<"U+0111", "U+00E3", " ", "c", "U+00F3", " ", "t", "U+00E0", "i", " ", "l", "i",
              "U+1EC7", "u", " ", "l", "i", "U+00EA", "n", " ", "q", "u", "a", "n", ".", " ", "V",
              "u", "i", " ", "l", "U+00F2", "n", "g", " ", "b", "U+1ED5", " ", "s", "u", "n", "g",
              " ", "t", "r", "a", "n", "s", "c", "r", "i", "p", "t", " ", "U+0111", "U+1EC3", " ",
              "t", "U+1EA1", "o", " ", "b", "U+1EA3", "n", " ", "t", "U+00F3", "m", " ", "t",
              "U+1EAF", "t", " ", "s", "U+00E2", "u", " ", "v", "U+00E0", " ", "U+0111", "U+00E1",
              "n", "g", " ", "t", "i", "n", " ", "c", "U+1EAD", "y", " ", "h", "U+01A1", "n", ".">>,
         limited |-> 
            <<"p", "h", "i", "U+00EA", "n", " ", "h", "U+1ECD", "p", " ", "U+0111", "U+00E3", " ",
              "U+0111", "U+01B0", "U+1EE3", "c", " ", "g", "h", "i", " ", "n", "h", "U+1EAD", "n",
              " ", "n", "h", "U+01B0", "n", "g", " ", "d", "U+1EEF", " ", "l", "i", "U+1EC7", "u",
              " ", "n", "U+1ED9", "i", " ", "d", "u", "n", "g", " ", "c", "U+00F2", "n", " ", "h",
              "U+1EA1", "n", " ", "c", "h", "U+1EBF", ".", " ", "V", "u", "i", " ", "l", "U+00F2",
              "n", "g", " ", "c", "u", "n", "g", " ", "c", "U+1EA5", "p", " ", "t", "r", "a", "n",
              "s", "c", "r", "i", "p", "t", " ", "h", "o", "U+1EB7", "c", " ", "g", "h", "i", " ",
              "c", "h", "U+00FA", " ", "U+0111", "U+1EC3", " ", "t", "U+1EA1", "o", " ", "b",
              "U+1EA3", "n", " ", "t", "U+00F3", "m", " ", "t", "U+1EAF", "t", " ", "U+0111",
              "U+1EA7", "y", " ", "U+0111", "U+1EE7", " ", "t", "h", "e", "o", " ", "b", "U+1EB1",
              "n", "g", " ", "c", "h", "U+1EE9", "n", "g", ".">>,
         actions_pre |-> 
            <<"U+0110", "U+00E3", " ", "g", "h", "i", " ", "n", "h", "U+1EAD", "n", " ">>,
         actions_post |-> 
            <<" ", "U+0111", "U+1EA7", "u", " ", "v", "i", "U+1EC7", "c", " ", "c", "U+1EA7", "n",
              " ", "t", "h", "e", "o", " ", "d", "U+00F5", "i", ".">>,
         decisions_pre |-> 
            <<"U+0110", "U+00E3", " ", "x", "U+00E1", "c", " ", "U+0111", "U+1ECB", "n", "h", " ">>,
         decisions_post |-> 
            <<" ", "q", "u", "y", "U+1EBF", "t", " ", "U+0111", "U+1ECB", "n", "h", " ", "t", "r",
              "o", "n", "g", " ", "p", "h", "i", "U+00EA", "n", " ", "h", "U+1ECD", "p", ".">>,
         risks_pre |-> 
            <<"U+0110", "U+00E3", " ", "g", "h", "i", " ", "n", "h", "U+1EAD", "n", " ">>,
         risks_post |-> 
            <<" ", "r", "U+1EE7", "i", " ", "r", "o", " ", "h", "o", "U+1EB7", "c", " ", "b", "l",
              "o", "c", "k", "e", "r", ".">>,
         docs_pre |-> 
            <<"C", "U+00F3", " ">>,
         docs_post |-> 
            <<" ", "t", "U+00E0", "i", " ", "l", "i", "U+1EC7", "u", " ", "l", "i", "U+00EA", "n",
              " ", "q", "u", "a", "n", " ", "U+0111", "U+01B0", "U+1EE3", "c", " ", "g", "U+1EAF",
              "n", " ", "v", "U+1EDB", "i", " ", "p", "h", "i", "U+00EA", "n", " ", "h", "U+1ECD",
              "p", ".">>,
         add_notes |-> 
            <<"B", "U+1ED5", " ", "s", "u", "n", "g", " ", "t", "r", "a", "n", "s", "c", "r", "i",
              "p", "t", " ", "h", "o", "U+1EB7", "c", " ", "g", "h", "i", " ", "c", "h", "U+00FA",
              " ", "U+0111", "U+1EC3", " ", "t", "U+0103", "n", "g", " ", "U+0111", "U+1ED9", " ",
              "s", "U+00E2", "u", " ", "v", "U+00E0", " ", "U+0111", "U+1ED9", " ", "t", "i", "n",
              " ", "c", "U+1EAD", "y", " ", "c", "h", "o", " ", "t", "U+00F3", "m", " ", "t",
              "U+1EAF", "t", ".">>],
     en |->
        [prelim |-> 
            <<"P", "r", "e", "l", "i", "m", "i", "n", "a", "r", "y", " ", "s", "u", "m", "m", "a",
              "r", "y", " ", "f", "o", "r", " ", "'">>,
         need_evidence |-> 
            <<"A", "d", "d", "i", "t", "i", "o", "n", "a", "l", " ", "t", "r", "a", "n", "s", "c",
              "r", "i", "p", "t", " ", "e", "v", "i", "d", "e", "n", "c", "e", " ", "w", "i", "l",
              "l", " ", "i", "m", "p", "r", "o", "v", "e", " ", "d", "e", "t", "a", "i", "l", " ",
              "a", "n", "d", " ", "c", "o", "n", "f", "i", "d", "e", "n", "c", "e", ".">>,
         refine_draft |-> 
            <<"T", "h", "i", "s", " ", "d", "r", "a", "f", "t", " ", "s", "h", "o", "u", "l", "d",
              " ", "b", "e", " ", "r", "e", "f", "i", "n", "e", "d", " ", "w", "i", "t", "h", " ",
              "f", "u", "l", "l", " ", "t", "r", "a", "n", "s", "c", "r", "i", "p", "t", " ", "c",
              "o", "n", "t", "e", "x", "t", ".">>,
         captured |-> 
            <<"c", "a", "p", "t", "u", "r", "e", "d", " ">>,
         actions_and |-> 
            <<" ", "a", "c", "t", "i", "o", "n", " ", "i", "t", "e", "m", "(", "s", ")", ",", " ">>,
         decisions_and |-> 
            <<" ", "d", "e", "c", "i", "s", "i", "o", "n", "(", "s", ")", ",", " ", "a", "n", "d",
              " ">>,
         risks_end |-> 
            <<" ", "r", "i", "s", "k", "(", "s", ")", ".", " ">>,
         need_narrative |-> 
            <<"D", "e", "t", "a", "i", "l", "e", "d", " ", "n", "a", "r", "r", "a", "t", "i", "v",
              "e", " ", "r", "e", "q", "u", "i", "r", "e", "s", " ", "t", "r", "a", "n", "s", "c",
              "r", "i", "p", "t", " ", "o", "r", " ", "r", "i", "c", "h", "e", "r", " ", "n", "o",
              "t", "e", "s", ".">>,
         docs_available |-> 
            <<"r", "e", "l", "a", "t", "e", "d", " ", "d", "o", "c", "u", "m", "e", "n", "t", "s",
              " ", "a", "r", "e", " ", "a", "v", "a", "i", "l", "a", "b", "l", "e", ".", " ", "P",
              "l", "e", "a", "s", "e", " ", "a", "d", "d", " ", "t", "r", "a", "n", "s", "c", "r",
              "i", "p", "t", " ", "e", "v", "i", "d", "e", "n", "c", "e", " ", "f", "o", "r", " ",
              "a", " ", "d", "e", "e", "p", "e", "r", " ", "a", "n", "d", " ", "m", "o", "r", "e",
              " ", "r", "e", "l", "i", "a", "b", "l", "e", " ", "s", "u", "m", "m", "a", "r", "y",
              ".">>,
         limited |-> 
            <<"t", "h", "e", " ", "s", "e", "s", "s", "i", "o", "n", " ", "i", "s", " ", "r", "e",
              "c", "o", "r", "d", "e", "d", " ", "b", "u", "t", " ", "c", "o", "n", "t", "e", "n",
              "t", " ", "d", "a", "t", "a", " ", "i", "s", " ", "s", "t", "i", "l", "l", " ", "l",
              "i", "m", "i", "t", "e", "d", ".", " ", "P", "l", "e", "a", "s", "e", " ", "p", "r",
              "o", "v", "i", "d", "e", " ", "t", "r", "a", "n", "s", "c", "r", "i", "p", "t", " ",
              "o", "r", " ", "n", "o", "t", "e", "s", " ", "t", "o", " ", "g", "e", "n", "e", "r",
              "a", "t", "e", " ", "a", " ", "f", "u", "l", "l", ",", " ", "e", "v", "i", "d", "e",
              "n", "c", "e", "-", "b", "a", "s", "e", "d", " ", "s", "u", "m", "m", "a", "r", "y",
              ".">>,
         actions_pre |-> 
            <<>>,
         actions_post |-> 
            <<" ", "a", "c", "t", "i", "o", "n", " ", "i", "t", "e", "m", "(", "s", ")", " ", "w",
              "e", "r", "e", " ", "c", "a", "p", "t", "u", "r", "e", "d", " ", "a", "n", "d", " ",
              "s", "h", "o", "u", "l", "d", " ", "b", "e", " ", "t", "r", "a", "c", "k", "e", "d",
              ".">>,
         decisions_pre |-> 
            <<>>,
         decisions_post |-> 
            <<" ", "d", "e", "c", "i", "s", "i", "o", "n", "(", "s", ")", " ", "w", "e", "r", "e",
              " ", "i", "d", "e", "n", "t", "i", "f", "i", "e", "d", " ", "i", "n", " ", "t", "h",
              "i", "s", " ", "s", "e", "s", "s", "i", "o", "n", ".">>,
         risks_pre |-> 
            <<>>,
         risks_post |-> 
            <<" ", "r", "i", "s", "k", "(", "s", ")", " ", "o", "r", " ", "b", "l", "o", "c", "k",
              "e", "r", "s", " ", "w", "e", "r", "e", " ", "f", "l", "a", "g", "g", "e", "d", ".">>,
         docs_pre |-> 
            <<>>,
         docs_post |-> 
            <<" ", "r", "e", "l", "a", "t", "e", "d", " ", "d", "o", "c", "u", "m", "e", "n", "t",
              "(", "s", ")", " ", "a", "r", "e", " ", "l", "i", "n", "k", "e", "d", " ", "t", "o",
              " ", "t", "h", "i", "s", " ", "s", "e", "s", "s", "i", "o", "n", ".">>,
         add_notes |-> 
            <<"A", "d", "d", " ", "t", "r", "a", "n", "s", "c", "r", "i", "p", "t", " ", "o", "r",
              " ", "n", "o", "t", "e", "s", " ", "t", "o", " ", "i", "n", "c", "r", "e", "a", "s",
              "e", " ", "s", "u", "m", "m", "a", "r", "y", " ", "d", "e", "p", "t", "h", " ", "a",
              "n", "d", " ", "r", "e", "l", "i", "a", "b", "i", "l", "i", "t", "y", ".">>]]

----------------------------------------------------------------------------
(* minutes_service.py: the texts of the fallback in generate_minutes_with_ai *)

\* the texts generate_minutes_with_ai builds its fallback summary and key
\* points from, by output language
FallbackTexts ==
    [vi |->
        [no_description |-> 
            <<"C", "h", "U+01B0", "a", " ", "c", "U+00F3", " ", "m", "U+00F4", " ", "t", "U+1EA3",
              " ", "c", "u", "U+1ED9", "c", " ", "h", "U+1ECD", "p", ".", " ", "V", "u", "i", " ",
              "l", "U+00F2", "n", "g", " ", "b", "U+1ED5", " ", "s", "u", "n", "g", " ", "n", "g",
              "U+1EEF", " ", "c", "U+1EA3", "n", "h", " ", "U+0111", "U+1EC3", " ", "t", "U+1EA1",
              "o", " ", "t", "U+00F3", "m", " ", "t", "U+1EAF", "t", " ", "U+0111", "U+1EA7", "y",
              " ", "U+0111", "U+1EE7", " ", "h", "U+01A1", "n", ".">>,
         prelim |-> 
            <<"T", "U+00F3", "m", " ", "t", "U+1EAF", "t", " ", "s", "U+01A1", " ", "b", "U+1ED9",
              " ", "c", "h", "o", " ", "'">>,
         add_transcript |-> 
            <<"V", "u", "i", " ", "l", "U+00F2", "n", "g", " ", "b", "U+1ED5", " ", "s", "u", "n",
              "g", " ", "t", "r", "a", "n", "s", "c", "r", "i", "p", "t", " ", "U+0111", "U+1EC3",
              " ", "t", "U+1EA1", "o", " ", "b", "i", "U+00EA", "n", " ", "b", "U+1EA3", "n", " ",
              "s", "U+00E2", "u", " ", "v", "U+00E0", " ", "U+0111", "U+00E1", "n", "g", " ", "t",
              "i", "n", " ", "c", "U+1EAD", "y", " ", "h", "U+01A1", "n", ".">>,
         refine_draft |-> 
            <<"B", "U+1EA3", "n", " ", "n", "h", "U+00E1", "p", " ", "n", "U+00E0", "y", " ", "n",
              "U+00EA", "n", " ", "U+0111", "U+01B0", "U+1EE3", "c", " ", "t", "i", "n", "h", " ",
              "c", "h", "U+1EC9", "n", "h", " ", "b", "U+1EB1", "n", "g", " ", "t", "r", "a", "n",
              "s", "c", "r", "i", "p", "t", " ", "U+0111", "U+1EA7", "y", " ", "U+0111", "U+1EE7",
              ".">>,
         docs_available |-> 
            <<"U+0111", "U+00E3", " ", "c", "U+00F3", " ", "t", "U+00E0", "i", " ", "l", "i",
              "U+1EC7", "u", " ", "l", "i", "U+00EA", "n", " ", "q", "u", "a", "n", ".", " ", "V",
              "u", "i", " ", "l", "U+00F2", "n", "g", " ", "b", "U+1ED5", " ", "s", "u", "n", "g",
              " ", "d", "U+1EEF", " ", "l", "i", "U+1EC7", "u", " ", "t", "r", "a", "n", "s", "c",
              "r", "i", "p", "t", " ", "U+0111", "U+1EC3", " ", "t", "U+1EA1", "o", " ", "b", "i",
              "U+00EA", "n", " ", "b", "U+1EA3", "n", " ", "c", "h", "i", " ", "t", "i", "U+1EBF",
              "t", ".">>,
         limited |-> 
            <<"p", "h", "i", "U+00EA", "n", " ", "h", "U+1ECD", "p", " ", "U+0111", "U+00E3", " ",
              "U+0111", "U+01B0", "U+1EE3", "c", " ", "g", "h", "i", " ", "n", "h", "U+1EAD", "n",
              ",", " ", "n", "h", "U+01B0", "n", "g", " ", "b", "U+1EB1", "n", "g", " ", "c", "h",
              "U+1EE9", "n", "g", " ", "n", "U+1ED9", "i", " ", "d", "u", "n", "g", " ", "h", "i",
              "U+1EC7", "n", " ", "c", "U+00F2", "n", " ", "h", "U+1EA1", "n", " ", "c", "h",
              "U+1EBF", ".">>,
         actions_pre |-> 
            <<"U+0110", "U+00E3", " ", "g", "h", "i", " ", "n", "h", "U+1EAD", "n", " ">>,
         actions_post |-> 
            <<" ", "U+0111", "U+1EA7", "u", " ", "v", "i", "U+1EC7", "c", ".">>,
         decisions_pre |-> 
            <<"U+0110", "U+00E3", " ", "g", "h", "i", " ", "n", "h", "U+1EAD", "n", " ">>,
         decisions_post |-> 
            <<" ", "q", "u", "y", "U+1EBF", "t", " ", "U+0111", "U+1ECB", "n", "h", ".">>,
         risks_pre |-> 
            <<"U+0110", "U+00E3", " ", "g", "h", "i", " ", "n", "h", "U+1EAD", "n", " ">>,
         risks_post |-> 
            <<" ", "r", "U+1EE7", "i", " ", "r", "o", ".">>,
         docs_pre |-> 
            <<"C", "U+00F3", " ">>,
         docs_post |-> 
            <<" ", "t", "U+00E0", "i", " ", "l", "i", "U+1EC7", "u", " ", "t", "h", "a", "m", " ",
              "c", "h", "i", "U+1EBF", "u", " ", "l", "i", "U+00EA", "n", " ", "q", "u", "a", "n",
              ".">>,
         add_transcript_point |-> 
            <<"V", "u", "i", " ", "l", "U+00F2", "n", "g", " ", "b", "U+1ED5", " ", "s", "u", "n",
              "g", " ", "t", "r", "a", "n", "s", "c", "r", "i", "p", "t", " ", "U+0111", "U+1EC3",
              " ", "t", "U+0103", "n", "g", " ", "U+0111", "U+1ED9", " ", "s", "U+00E2", "u", " ",
              "v", "U+00E0", " ", "U+0111", "U+1ED9", " ", "c", "h", "U+00ED", "n", "h", " ", "x",
              "U+00E1", "c", " ", "c", "U+1EE7", "a", " ", "t", "U+00F3", "m", " ", "t", "U+1EAF",
              "t", ".">>],
     en |->
        [no_description |-> 
            <<"N", "o", " ", "m", "e", "e", "t", "i", "n", "g", " ", "d", "e", "s", "c", "r", "i",
              "p", "t", "i", "o", "n", " ", "i", "s", " ", "a", "v", "a", "i", "l", "a", "b", "l",
              "e", " ", "y", "e", "t", ".", " ", "P", "l", "e", "a", "s", "e", " ", "a", "d", "d",
              " ", "c", "o", "n", "t", "e", "x", "t", " ", "f", "o", "r", " ", "a", " ", "r", "i",
              "c", "h", "e", "r", " ", "s", "u", "m", "m", "a", "r", "y", ".">>,
         prelim |-> 
            <<"P", "r", "e", "l", "i", "m", "i", "n", "a", "r", "y", " ", "s", "u", "m", "m", "a",
              "r", "y", " ", "f", "o", "r", " ", "'">>,
         add_transcript |-> 
            <<"A", "d", "d", " ", "t", "r", "a", "n", "s", "c", "r", "i", "p", "t", " ", "e", "v",
              "i", "d", "e", "n", "c", "e", " ", "f", "o", "r", " ", "d", "e", "e", "p", "e", "r",
              " ", "a", "n", "d", " ", "m", "o", "r", "e", " ", "r", "e", "l", "i", "a", "b", "l",
              "e", " ", "m", "i", "n", "u", "t", "e", "s", ".">>,
         refine_draft |-> 
            <<"T", "h", "i", "s", " ", "d", "r", "a", "f", "t", " ", "s", "h", "o", "u", "l", "d",
              " ", "b", "e", " ", "r", "e", "f", "i", "n", "e", "d", " ", "w", "i", "t", "h", " ",
              "f", "u", "l", "l", " ", "t", "r", "a", "n", "s", "c", "r", "i", "p", "t", " ", "c",
              "o", "n", "t", "e", "x", "t", ".">>,
         docs_available |-> 
            <<"r", "e", "l", "a", "t", "e", "d", " ", "d", "o", "c", "u", "m", "e", "n", "t", "s",
              " ", "a", "r", "e", " ", "a", "v", "a", "i", "l", "a", "b", "l", "e", ".", " ", "P",
              "l", "e", "a", "s", "e", " ", "a", "d", "d", " ", "t", "r", "a", "n", "s", "c", "r",
              "i", "p", "t", " ", "d", "a", "t", "a", " ", "t", "o", " ", "g", "e", "n", "e", "r",
              "a", "t", "e", " ", "d", "e", "t", "a", "i", "l", "e", "d", " ", "m", "i", "n", "u",
              "t", "e", "s", ".">>,
         limited |-> 
            <<"t", "h", "i", "s", " ", "s", "e", "s", "s", "i", "o", "n", " ", "i", "s", " ", "r",
              "e", "c", "o", "r", "d", "e", "d", ",", " ", "b", "u", "t", " ", "c", "o", "n", "t",
              "e", "n", "t", " ", "e", "v", "i", "d", "e", "n", "c", "e", " ", "i", "s", " ", "c",
              "u", "r", "r", "e", "n", "t", "l", "y", " ", "l", "i", "m", "i", "t", "e", "d", ".">>,
         actions_pre |-> 
            <<>>,
         actions_post |-> 
            <<" ", "a", "c", "t", "i", "o", "n", " ", "i", "t", "e", "m", "(", "s", ")", " ", "w",
              "e", "r", "e", " ", "c", "a", "p", "t", "u", "r", "e", "d", ".">>,
         decisions_pre |-> 
            <<>>,
         decisions_post |-> 
            <<" ", "d", "e", "c", "i", "s", "i", "o", "n", "(", "s", ")", " ", "w", "e", "r", "e",
              " ", "c", "a", "p", "t", "u", "r", "e", "d", ".">>,
         risks_pre |-> 
            <<>>,
         risks_post |-> 
            <<" ", "r", "i", "s", "k", "(", "s", ")", " ", "w", "e", "r", "e", " ", "c", "a", "p",
              "t", "u", "r", "e", "d", ".">>,
         docs_pre |-> 
            <<>>,
         docs_post |-> 
            <<" ", "r", "e", "f", "e", "r", "e", "n", "c", "e", " ", "d", "o", "c", "u", "m", "e",
              "n", "t", "(", "s", ")", " ", "a", "r", "e", " ", "l", "i", "n", "k", "e", "d", ".">>,
         add_transcript_point |-> 
            <<"A", "d", "d", " ", "t", "r", "a", "n", "s", "c", "r", "i", "p", "t", " ", "e", "v",
              "i", "d", "e", "n", "c", "e", " ", "t", "o", " ", "i", "m", "p", "r", "o", "v", "e",
              " ", "s", "u", "m", "m", "a", "r", "y", " ", "d", "e", "p", "t", "h", " ", "a", "n",
              "d", " ", "a", "c", "c", "u", "r", "a", "c", "y", ".">>]]

----------------------------------------------------------------------------
(* minutes_service.py: the texts of _expand_summary_if_needed *)

\* the texts _expand_summary_if_needed builds its paragraphs from, by
\* output language
ExpandTexts ==
    [vi |->
        [meeting_pre |-> 
            <<"C", "u", "U+1ED9", "c", " ", "h", "U+1ECD", "p", " ", "'">>,
         focused_on |-> 
            <<"'", " ", "t", "U+1EAD", "p", " ", "t", "r", "u", "n", "g", " ", "v", "U+00E0", "o",
              " ", "n", "U+1ED9", "i", " ", "d", "u", "n", "g", ":", " ">>,
         was_captured |-> 
            <<"'", " ", "U+0111", "U+00E3", " ", "U+0111", "U+01B0", "U+1EE3", "c", " ", "g", "h",
              "i", " ", "n", "h", "U+1EAD", "n", " ", "v", "U+00E0", " ", "c", "U+1EA7", "n", " ",
              "b", "i", "U+00EA", "n", " ", "b", "U+1EA3", "n", " ", "c", "h", "i", " ", "t", "i",
              "U+1EBF", "t", " ", "U+0111", "U+1EC3", " ", "t", "h", "e", "o", " ", "d", "U+00F5",
              "i", " ", "t", "i", "U+1EBF", "n", " ", "U+0111", "U+1ED9", ".">>,
         points_pre |-> 
            <<"C", "U+00E1", "c", " ", "U+0111", "i", "U+1EC3", "m", " ", "t", "h", "U+1EA3", "o",
              " ", "l", "u", "U+1EAD", "n", " ", "t", "r", "U+1ECD", "n", "g", " ", "t", "U+00E2",
              "m", " ", "g", "U+1ED3", "m", ":", " ">>,
         points_post |-> 
            <<".", " ", "N", "U+1ED9", "i", " ", "d", "u", "n", "g", " ", "c", "h", "o", " ", "t",
              "h", "U+1EA5", "y", " ", "c", "U+00E1", "c", " ", "b", "U+00EA", "n", " ", "U+0111",
              "U+00E3", " ", "l", "U+00E0", "m", " ", "r", "U+00F5", " ", "v", "U+1EA5", "n", " ",
              "U+0111", "U+1EC1", ",", " ", "p", "h", "U+1EA1", "m", " ", "v", "i", " ", "U+1EA3",
              "n", "h", " ", "h", "U+01B0", "U+1EDF", "n", "g", " ", "v", "U+00E0", " ", "h",
              "U+01B0", "U+1EDB", "n", "g", " ", "x", "U+1EED", " ", "l", "U+00FD", " ", "U+01B0",
              "u", " ", "t", "i", "U+00EA", "n", ".">>,
         decisions_pre |-> 
            <<"U+0110", "U+00E3", " ", "g", "h", "i", " ", "n", "h", "U+1EAD", "n", " ">>,
         decisions_post |-> 
            <<" ", "q", "u", "y", "U+1EBF", "t", " ", "U+0111", "U+1ECB", "n", "h", ".", " ">>,
         decisions_preview |-> 
            <<"C", "U+00E1", "c", " ", "q", "u", "y", "U+1EBF", "t", " ", "U+0111", "U+1ECB", "n",
              "h", " ", "U+0111", "U+00E1", "n", "g", " ", "c", "h", "U+00FA", " ", "U+00FD", ":",
              " ">>,
         decisions_tail |-> 
            <<"C", "U+00E1", "c", " ", "q", "u", "y", "U+1EBF", "t", " ", "U+0111", "U+1ECB", "n",
              "h", " ", "n", "U+00E0", "y", " ", "l", "U+00E0", " ", "c", "U+0103", "n", " ", "c",
              "U+1EE9", " ", "U+0111", "U+1EC3", " ", "t", "r", "i", "U+1EC3", "n", " ", "k", "h",
              "a", "i", " ", "k", "U+1EBF", " ", "h", "o", "U+1EA1", "c", "h", " ", "v", "U+00E0",
              " ", "p", "h", "U+00E2", "n", " ", "q", "u", "y", "U+1EC1", "n", " ", "t", "h",
              "U+1EF1", "c", " ", "t", "h", "i", ".">>,
         actions_pre |-> 
            <<"U+0110", "U+00E3", " ", "t", "U+1ED5", "n", "g", " ", "h", "U+1EE3", "p", " ">>,
         actions_post |-> 
            <<" ", "U+0111", "U+1EA7", "u", " ", "v", "i", "U+1EC7", "c", " ", "c", "U+1EA7", "n",
              " ", "t", "h", "e", "o", " ", "d", "U+00F5", "i", ".", " ">>,
         actions_preview |-> 
            <<"M", "U+1ED9", "t", " ", "s", "U+1ED1", " ", "U+0111", "U+1EA7", "u", " ", "v", "i",
              "U+1EC7", "c", " ", "t", "i", "U+00EA", "u", " ", "b", "i", "U+1EC3", "u", ":", " ">>,
         actions_tail |-> 
            <<"C", "U+1EA7", "n", " ", "r", "U+00E0", " ", "s", "o", "U+00E1", "t", " ", "d", "e",
              "a", "d", "l", "i", "n", "e", " ", "v", "U+00E0", " ", "t", "r", "U+1EA1", "n", "g",
              " ", "t", "h", "U+00E1", "i", " ", "U+0111", "U+1ECB", "n", "h", " ", "k", "U+1EF3",
              " ", "U+0111", "U+1EC3", " ", "U+0111", "U+1EA3", "m", " ", "b", "U+1EA3", "o", " ",
              "t", "i", "U+1EBF", "n", " ", "U+0111", "U+1ED9", " ", "c", "a", "m", " ", "k",
              "U+1EBF", "t", ".">>,
         risks_pre |-> 
            <<"U+0110", "U+00E3", " ", "p", "h", "U+00E1", "t", " ", "h", "i", "U+1EC7", "n", " ">>,
         risks_post |-> 
            <<" ", "r", "U+1EE7", "i", " ", "r", "o", "/", "v", "U+01B0", "U+1EDB", "n", "g", " ",
              "m", "U+1EAF", "c", ".", " ">>,
         risks_preview |-> 
            <<"C", "U+00E1", "c", " ", "r", "U+1EE7", "i", " ", "r", "o", " ", "c", "h", "U+00ED",
              "n", "h", ":", " ">>,
         risks_tail |-> 
            <<"U+0110", "U+1EC1", " ", "x", "u", "U+1EA5", "t", " ", "t", "h", "e", "o", " ", "d",
              "U+00F5", "i", " ", "m", "U+1EE9", "c", " ", "U+0111", "U+1ED9", " ", "U+1EA3", "n",
              "h", " ", "h", "U+01B0", "U+1EDF", "n", "g", " ", "v", "U+00E0", " ", "k", "U+1EBF",
              " ", "h", "o", "U+1EA1", "c", "h", " ", "g", "i", "U+1EA3", "m", " ", "t", "h", "i",
              "U+1EC3", "u", " ", "t", "h", "e", "o", " ", "t", "U+1EEB", "n", "g", " ", "m",
              "U+1ED1", "c", ".">>,
         steps_pre |-> 
            <<"C", "U+00E1", "c", " ", "b", "U+01B0", "U+1EDB", "c", " ", "t", "i", "U+1EBF", "p",
              " ", "t", "h", "e", "o", " ", "U+0111", "U+00E3", " ", "U+0111", "U+01B0", "U+1EE3",
              "c", " ", "x", "U+00E1", "c", " ", "U+0111", "U+1ECB", "n", "h", ":", " ">>,
         steps_post |-> 
            <<".", " ", "C", "U+1EA7", "n", " ", "c", "h", "U+1ED1", "t", " ", "n", "g", "U+01B0",
              "U+1EDD", "i", " ", "p", "h", "U+1EE5", " ", "t", "r", "U+00E1", "c", "h", " ", "v",
              "U+00E0", " ", "t", "h", "U+1EDD", "i", " ", "h", "U+1EA1", "n", " ", "c", "U+1EE5",
              " ", "t", "h", "U+1EC3", " ", "c", "h", "o", " ", "t", "U+1EEB", "n", "g", " ", "h",
              "U+1EA1", "n", "g", " ", "m", "U+1EE5", "c", ".">>,
         topics_pre |-> 
            <<"P", "h", "i", "U+00EA", "n", " ", "h", "U+1ECD", "p", " ", "g", "h", "i", " ", "n",
              "h", "U+1EAD", "n", " ">>,
         topics_post |-> 
            <<" ", "c", "U+1EE5", "m", " ", "c", "h", "U+1EE7", " ", "U+0111", "U+1EC1", " ", "t",
              "h", "e", "o", " ", "t", "i", "m", "e", "l", "i", "n", "e", ",", " ", "h", "U+1ED7",
              " ", "t", "r", "U+1EE3", " ", "t", "r", "u", "y", " ", "v", "U+1EBF", "t", " ", "n",
              "h", "a", "n", "h", " ", "n", "U+1ED9", "i", " ", "d", "u", "n", "g", " ", "v",
              "U+00E0", " ", "q", "u", "y", "U+1EBF", "t", " ", "U+0111", "U+1ECB", "n", "h", ".">>,
         evidence_pre |-> 
            <<"B", "U+1EB1", "n", "g", " ", "c", "h", "U+1EE9", "n", "g", " ", "t", "r", "a", "n",
              "s", "c", "r", "i", "p", "t", " ", "t", "i", "U+00EA", "u", " ", "b", "i", "U+1EC3",
              "u", ":", " ">>],
     en |->
        [meeting_pre |-> 
            <<"T", "h", "e", " ", "m", "e", "e", "t", "i", "n", "g", " ", "'">>,
         focused_on |-> 
            <<"'", " ", "f", "o", "c", "u", "s", "e", "d", " ", "o", "n", ":", " ">>,
         was_captured |-> 
            <<"'", " ", "w", "a", "s", " ", "c", "a", "p", "t", "u", "r", "e", "d", " ", "a", "n",
              "d", " ", "r", "e", "q", "u", "i", "r", "e", "s", " ", "d", "e", "t", "a", "i", "l",
              "e", "d", " ", "m", "i", "n", "u", "t", "e", "s", " ", "f", "o", "r", " ", "f", "o",
              "l", "l", "o", "w", "-", "u", "p", ".">>,
         points_pre |-> 
            <<"C", "o", "r", "e", " ", "d", "i", "s", "c", "u", "s", "s", "i", "o", "n", " ", "p",
              "o", "i", "n", "t", "s", " ", "i", "n", "c", "l", "u", "d", "e", "d", ":", " ">>,
         points_post |-> 
            <<".", " ", "T", "h", "e", " ", "f", "l", "o", "w", " ", "c", "l", "a", "r", "i", "f",
              "i", "e", "d", " ", "s", "c", "o", "p", "e", ",", " ", "i", "m", "p", "a", "c", "t",
              ",", " ", "a", "n", "d", " ", "p", "r", "i", "o", "r", "i", "t", "y", " ", "h", "a",
              "n", "d", "l", "i", "n", "g", " ", "d", "i", "r", "e", "c", "t", "i", "o", "n", ".">>,
         decisions_pre |-> 
            <<>>,
         decisions_post |-> 
            <<" ", "d", "e", "c", "i", "s", "i", "o", "n", "(", "s", ")", " ", "w", "e", "r", "e",
              " ", "c", "a", "p", "t", "u", "r", "e", "d", ".", " ">>,
         decisions_preview |-> 
            <<"N", "o", "t", "a", "b", "l", "e", " ", "d", "e", "c", "i", "s", "i", "o", "n", "s",
              ":", " ">>,
         decisions_tail |-> 
            <<"T", "h", "e", "s", "e", " ", "d", "e", "c", "i", "s", "i", "o", "n", "s", " ", "e",
              "s", "t", "a", "b", "l", "i", "s", "h", " ", "t", "h", "e", " ", "e", "x", "e", "c",
              "u", "t", "i", "o", "n", " ", "b", "a", "s", "e", "l", "i", "n", "e", " ", "a", "n",
              "d", " ", "o", "w", "n", "e", "r", "s", "h", "i", "p", " ", "b", "o", "u", "n", "d",
              "a", "r", "i", "e", "s", ".">>,
         actions_pre |-> 
            <<>>,
         actions_post |-> 
            <<" ", "a", "c", "t", "i", "o", "n", " ", "i", "t", "e", "m", "(", "s", ")", " ", "w",
              "e", "r", "e", " ", "c", "o", "n", "s", "o", "l", "i", "d", "a", "t", "e", "d", ".",
              " ">>,
         actions_preview |-> 
            <<"R", "e", "p", "r", "e", "s", "e", "n", "t", "a", "t", "i", "v", "e", " ", "i", "t",
              "e", "m", "s", ":", " ">>,
         actions_tail |-> 
            <<"D", "e", "a", "d", "l", "i", "n", "e", "s", " ", "a", "n", "d", " ", "s", "t", "a",
              "t", "u", "s", " ", "s", "h", "o", "u", "l", "d", " ", "b", "e", " ", "r", "e", "v",
              "i", "e", "w", "e", "d", " ", "o", "n", " ", "a", " ", "r", "e", "c", "u", "r", "r",
              "i", "n", "g", " ", "c", "a", "d", "e", "n", "c", "e", ".">>,
         risks_pre |-> 
            <<>>,
         risks_post |-> 
            <<" ", "r", "i", "s", "k", "(", "s", ")", "/", "b", "l", "o", "c", "k", "e", "r", "s",
              " ", "w", "e", "r", "e", " ", "i", "d", "e", "n", "t", "i", "f", "i", "e", "d", ".",
              " ">>,
         risks_preview |-> 
            <<"P", "r", "i", "m", "a", "r", "y", " ", "r", "i", "s", "k", "s", ":", " ">>,
         risks_tail |-> 
            <<"I", "m", "p", "a", "c", "t", " ", "l", "e", "v", "e", "l", "s", " ", "a", "n", "d",
              " ", "m", "i", "t", "i", "g", "a", "t", "i", "o", "n", " ", "p", "l", "a", "n", "s",
              " ", "s", "h", "o", "u", "l", "d", " ", "b", "e", " ", "t", "r", "a", "c", "k", "e",
              "d", " ", "b", "y", " ", "m", "i", "l", "e", "s", "t", "o", "n", "e", ".">>,
         steps_pre |-> 
            <<"N", "e", "x", "t", " ", "s", "t", "e", "p", "s", " ", "w", "e", "r", "e", " ", "i",
              "d", "e", "n", "t", "i", "f", "i", "e", "d", ":", " ">>,
         steps_post |-> 
            <<".", " ", "O", "w", "n", "e", "r", "s", " ", "a", "n", "d", " ", "c", "o", "n", "c",
              "r", "e", "t", "e", " ", "d", "u", "e", " ", "d", "a", "t", "e", "s", " ", "s", "h",
              "o", "u", "l", "d", " ", "b", "e", " ", "f", "i", "n", "a", "l", "i", "z", "e", "d",
              " ", "p", "e", "r", " ", "i", "t", "e", "m", ".">>,
         topics_pre |-> 
            <<"T", "h", "e", " ", "s", "e", "s", "s", "i", "o", "n", " ", "t", "r", "a", "c", "k",
              "e", "d", " ">>,
         topics_post |-> 
            <<" ", "t", "o", "p", "i", "c", " ", "c", "l", "u", "s", "t", "e", "r", "s", " ", "o",
              "n", " ", "t", "h", "e", " ", "t", "i", "m", "e", "l", "i", "n", "e", " ", "f", "o",
              "r", " ", "b", "e", "t", "t", "e", "r", " ", "t", "r", "a", "c", "e", "a", "b", "i",
              "l", "i", "t", "y", ".">>,
         evidence_pre |-> 
            <<"R", "e", "p", "r", "e", "s", "e", "n", "t", "a", "t", "i", "v", "e", " ", "t", "r",
              "a", "n", "s", "c", "r", "i", "p", "t", " ", "e", "v", "i", "d", "e", "n", "c", "e",
              ":", " ">>]]

----------------------------------------------------------------------------
(* the output language setting *)

ViAliases ==
    {<<"v", "i">>,
     <<"v", "i", "-", "v", "n">>,
     <<"v", "n">>,
     <<"v", "i", "e", "t", "n", "a", "m", "e", "s", "e">>,
     <<"v", "i", "e", "t", "n", "a", "m">>,
     <<"t", "i", "e", "n", "g", " ", "v", "i", "e", "t">>,
     <<"t", "i", "U+1EBF", "n", "g", " ", "v", "i", "U+1EC7", "t">>}

EnAliases ==
    {<<"e", "n">>,
     <<"e", "n", "-", "u", "s">>,
     <<"e", "n", "-", "g", "b">>,
     <<"e", "n", "g", "l", "i", "s", "h">>}

\* gemini_client._output_language_code on the value of llm_output_language
\* (the empty text stands for an unset value as well)
output_language_code(setting) ==
    With(Lower(Strip(setting)), LAMBDA rawv :
        IF rawv \in ViAliases THEN <<"v", "i">>
        ELSE IF rawv \in EnAliases THEN <<"e", "n">>
        ELSE IF rawv = <<>> THEN <<"v", "i">> ELSE rawv)

\* minutes_service._prefer_vietnamese_output
prefer_vietnamese_output(setting) ==
    With(Lower(Strip(setting)), LAMBDA rawv : rawv \in ViAliases \/ rawv = <<>>)

\* the text table generate_summary_with_context reads: prefer_vi there is
\* _output_language_code() == "vi"
AssistantLang(setting) == IF output_language_code(setting) = <<"v", "i">> THEN "vi" ELSE "en"

\* the text table minutes_service reads
ServiceLang(setting) == IF prefer_vietnamese_output(setting) THEN "vi" ELSE "en"

----------------------------------------------------------------------------
(* minutes_service.py: the context of one generation *)

MAX_DIRECT_TRANSCRIPT_CHARS == 15000

\* the slice s[:n]
Prefix(s, n) == SubSeq(s, 1, IF Len(s) < n THEN Len(s) ELSE n)

DigitSeq == <<"0", "1", "2", "3", "4", "5", "6", "7", "8", "9">>

\* str(n) for a count n below 100
NatText(n) ==
    IF n < 10 THEN <<DigitSeq[n + 1]>>
    ELSE <<DigitSeq[(n \div 10) + 1], DigitSeq[(n % 10) + 1]>>

\* [row.get("description", "") for row in rows if row.get("description")]
Descriptions(rows) ==
    With(SelectSeq(rows, LAMBDA row : row.description # <<>>), LAMBDA kept :
        [i \in 1..Len(kept) |-> kept[i].description])

\* transcript_for_llm cut to the direct limit
llm_fallback_transcript(m) == Prefix(m.transcript, MAX_DIRECT_TRANSCRIPT_CHARS)

\* the fields of context_payload that the summary is built from; the risks
\* entries carry a severity suffix each and only their number is read
context_payload(m) ==
    [title |-> m.title,
     description |-> m.description,
     transcript |-> llm_fallback_transcript(m),
     actions |-> Descriptions(m.action_rows),
     decisions |-> Descriptions(m.decision_rows),
     risks |-> Descriptions(m.risk_rows),
     documents |-> m.related_docs]

----------------------------------------------------------------------------
(* gemini_client.py: MeetingAIAssistant.generate_summary_with_context *)

\* the title the fallback summary quotes
DefaultTitle == <<"M", "e", "e", "t", "i", "n", "g">>

\* the summary built from the context when the response gave none
AssistantFallbackSummary(context, lang) ==
    With(AssistantTexts[lang], LAMBDA tx :
        With([title |-> Strip(IF context.title = <<>> THEN DefaultTitle ELSE context.title),
              desc |-> Strip(context.description),
              transcript |-> Strip(context.transcript)], LAMBDA ev :
            tx.prelim \o ev.title \o <<"'", ":", " ">> \o
            (IF ev.desc # <<>>
             THEN Prefix(ev.desc, 360) \o <<".", " ">> \o tx.need_evidence
             ELSE IF ev.transcript # <<>>
             THEN Prefix(ev.transcript, 420) \o <<".", " ">> \o tx.refine_draft
             ELSE IF context.actions # <<>> \/ context.decisions # <<>> \/ context.risks # <<>>
             THEN tx.captured \o NatText(Len(context.actions)) \o tx.actions_and
                  \o NatText(Len(context.decisions)) \o tx.decisions_and
                  \o NatText(Len(context.risks)) \o tx.risks_end \o tx.need_narrative
             ELSE IF context.documents # <<>> THEN tx.docs_available
             ELSE tx.limited)))

\* one count bullet, or nothing when the list is empty
CountBullet(items, pre, post) ==
    IF items = <<>> THEN <<>> ELSE <<pre \o NatText(Len(items)) \o post>>

\* the key points built from the context when the response gave none
AssistantFallbackPoints(context, lang) ==
    With(AssistantTexts[lang], LAMBDA tx :
        With(CountBullet(context.actions, tx.actions_pre, tx.actions_post)
             \o CountBullet(context.decisions, tx.decisions_pre, tx.decisions_post)
             \o CountBullet(context.risks, tx.risks_pre, tx.risks_post)
             \o CountBullet(context.documents, tx.docs_pre, tx.docs_post),
             LAMBDA fallback_points :
            IF fallback_points = <<>> THEN <<tx.add_notes>> ELSE Prefix(fallback_points, 8)))

\* whether a parsed payload is a non-empty object (the test "if result")
NonEmptyObject(v) == v.t = "dict" /\ v.kids # <<>>

\* summary and key_points as read from the response alone: the payload
\* readers, then the regex recoverers, then the response text itself
ResponseSummaryAndPoints(rawText) ==
    With(parse_json_object_relaxed(rawText), LAMBDA result :
        With(IF NonEmptyObject(result)
             THEN extract_summary_and_points_from_payload(result)
             ELSE << <<>>, <<>> >>, LAMBDA got :
            With([summary |-> IF got[1] = <<>>
                              THEN extract_summary_field_by_regex(rawText) ELSE got[1],
                  key_points |-> IF got[2] = <<>>
                                 THEN extract_key_points_by_regex(rawText) ELSE got[2]],
                 LAMBDA found :
                IF found.summary = <<>> /\ found.key_points = <<>>
                THEN [found EXCEPT !.summary = Strip(strip_code_fences(rawText))]
                ELSE found)))

\* the returned {"summary": ..., "key_points": ...} for a chat response
generate_summary_with_context(rawText, context, lang) ==
    With(ResponseSummaryAndPoints(rawText), LAMBDA found :
        [summary |-> IF Strip(found.summary) = <<>>
                     THEN AssistantFallbackSummary(context, lang) ELSE found.summary,
         key_points |-> IF found.key_points = <<>>
                        THEN AssistantFallbackPoints(context, lang) ELSE found.key_points])

----------------------------------------------------------------------------
(* minutes_service.py: _word_count, _join_preview, _expand_summary_if_needed *)

\* the code points of the range U+00C0..U+1EF9 that occur in the texts here
RangeLetters ==
    {"U+00D3", "U+00D4", "U+00D5", "U+00E0", "U+00E1", "U+00E2", "U+00E3", "U+00EA", "U+00ED",
     "U+00F2", "U+00F3", "U+00F4", "U+00F5", "U+00FA", "U+00FD", "U+0103", "U+0110", "U+0111",
     "U+01A1", "U+01B0", "U+1EA1", "U+1EA3", "U+1EA5", "U+1EA7", "U+1EAD", "U+1EAF", "U+1EB1",
     "U+1EB7", "U+1EBF", "U+1EC1", "U+1EC3", "U+1EC7", "U+1EC9", "U+1ECB", "U+1ECD", "U+1ED1",
     "U+1ED3", "U+1ED5", "U+1ED7", "U+1ED9", "U+1EDB", "U+1EDD", "U+1EDF", "U+1EE3", "U+1EE5",
     "U+1EE7", "U+1EE9", "U+1EEB", "U+1EED", "U+1EEF", "U+1EF1", "U+1EF3"}

\* the characters of the class [0-9A-Za-zÀ-ỹ]
WordChars == Digits \cup AsciiLetters \cup RangeLetters

\* len(re.findall(r"[word characters]+", text_value)): the number of maximal runs
word_count(text_value) ==
    Cardinality({i \in 1..Len(text_value) :
                    /\ text_value[i] \in WordChars
                    /\ (i = 1 \/ text_value[i - 1] \notin WordChars)})

join_preview(values, limit) == JoinWith(Prefix(StrippedNonEmpty(values), limit), <<";", " ">>)

\* the paragraph on decisions, on action items or on risks: the count
\* sentence, the preview sentence when there is a preview, the closing one
PreviewParagraph(n, pre, post, label, preview, tail) ==
    pre \o NatText(n) \o post
    \o (IF preview # <<>> THEN label \o preview \o <<".", " ">> ELSE <<>>)
    \o tail

\* "description (owner: owner or N/A)" of the rows that have a description
OwnedActions(action_rows) ==
    With(SelectSeq(action_rows, LAMBDA row : Strip(row.description) # <<>>), LAMBDA kept :
        [i \in 1..Len(kept) |->
            Strip(kept[i].description) \o <<" ", "(", "o", "w", "n", "e", "r", ":", " ">>
            \o Strip(IF kept[i].owner = <<>> THEN <<"N", "/", "A">> ELSE kept[i].owner)
            \o <<")">>])

RowDescriptions(rows) == [i \in 1..Len(rows) |-> Strip(rows[i].description)]

\* the paragraphs before the transcript evidence, in order; c carries the
\* arguments of _expand_summary_if_needed
ExpandParagraphs(base_summary, c, tx) ==
    <<IF base_summary # <<>> THEN base_summary
      ELSE IF c.meeting_desc # <<>>
      THEN tx.meeting_pre \o c.meeting_title \o tx.focused_on
           \o Strip(Prefix(c.meeting_desc, 420)) \o <<".">>
      ELSE tx.meeting_pre \o c.meeting_title \o tx.was_captured>>
    \o With(join_preview(c.key_points, 5), LAMBDA preview :
            IF preview = <<>> THEN <<>> ELSE <<tx.points_pre \o preview \o tx.points_post>>)
    \o (IF c.decision_rows = <<>> THEN <<>>
        ELSE <<PreviewParagraph(Len(c.decision_rows), tx.decisions_pre, tx.decisions_post,
                    tx.decisions_preview, join_preview(RowDescriptions(c.decision_rows), 3),
                    tx.decisions_tail)>>)
    \o (IF c.action_rows = <<>> THEN <<>>
        ELSE <<PreviewParagraph(Len(c.action_rows), tx.actions_pre, tx.actions_post,
                    tx.actions_preview, join_preview(OwnedActions(c.action_rows), 3),
                    tx.actions_tail)>>)
    \o (IF c.risk_rows = <<>> THEN <<>>
        ELSE <<PreviewParagraph(Len(c.risk_rows), tx.risks_pre, tx.risks_post,
                    tx.risks_preview, join_preview(RowDescriptions(c.risk_rows), 3),
                    tx.risks_tail)>>)
    \o (IF c.next_steps = <<>> THEN <<>>
        ELSE <<tx.steps_pre \o join_preview(c.next_steps, 4) \o tx.steps_post>>)
    \o (IF c.topic_tracker = <<>> THEN <<>>
        ELSE <<tx.topics_pre \o NatText(Len(c.topic_tracker)) \o tx.topics_post>>)

ParagraphBreak == <<NL, NL>>

\* the paragraph of transcript evidence, added while the text is short
EvidenceParagraph(paragraphs, transcript_excerpt, tx) ==
    IF transcript_excerpt # <<>> /\ word_count(JoinWith(paragraphs, ParagraphBreak)) < 120
    THEN With(Strip(ReplaceChar(Prefix(transcript_excerpt, 520), NL, <<" ">>)), LAMBDA snippet :
            IF snippet = <<>> THEN <<>> ELSE <<tx.evidence_pre \o snippet \o <<".">> >>)
    ELSE <<>>

expand_summary_if_needed(c, lang) ==
    With(Strip(c.summary), LAMBDA base_summary :
        IF word_count(base_summary) >= 140 THEN base_summary
        ELSE With(ExpandParagraphs(base_summary, c, ExpandTexts[lang]), LAMBDA paragraphs :
                With(paragraphs \o EvidenceParagraph(paragraphs, c.transcript_excerpt,
                                                     ExpandTexts[lang]), LAMBDA all :
                    Strip(JoinWith(SelectSeq(all, LAMBDA item : Strip(item) # <<>>),
                                   ParagraphBreak)))))

----------------------------------------------------------------------------
(* minutes_service.py: the steps of generate_minutes_with_ai *)

ContextJson == <<"c", "o", "n", "t", "e", "x", "t", "_", "j", "s", "o", "n">>
StructuredJson ==
    <<"s", "t", "r", "u", "c", "t", "u", "r", "e", "d", "_", "j", "s", "o", "n">>

\* prompt_strategy as normalised from the request (the empty text stands
\* for an unset value)
prompt_strategy(req) ==
    With(Lower(Strip(IF req.prompt_strategy = <<>> THEN ContextJson
                     ELSE req.prompt_strategy)), LAMBDA strategy :
        IF strategy \in {ContextJson, StructuredJson} THEN strategy ELSE ContextJson)

\* the parameters generate_minutes_json declares besides self
MinutesJsonParams == {"transcript"}

\* the arguments generate_minutes_with_ai passes to generate_minutes_json
MinutesJsonArguments == {"transcript", "session_type"}

\* the exception the structured call ends with, "none" when it returns: a
\* keyword argument the callee does not declare is a TypeError
StructuredCallOutcome ==
    IF MinutesJsonArguments \subseteq MinutesJsonParams THEN "none" ELSE "TypeError"

\* the exception classes "except Exception" handles
HandledExceptions == {"TypeError", "ValueError", "KeyError", "AttributeError", "RuntimeError"}

\* a handler that lets every exception through
CatchesNothing(exc) == FALSE

\* whether the except branch of the summary stage handles exc
Catches(exc) == exc \in HandledExceptions

\* summary_result as the except branch sets it
ExceptResult(m, lang) ==
    With(<<Descriptions(m.action_rows), Descriptions(m.decision_rows)>>, LAMBDA lists :
        [summary |-> IF m.description # <<>> THEN m.description
                     ELSE FallbackTexts[lang].no_description,
         key_points |-> IF lists[1] # <<>> THEN Prefix(lists[1], 3) ELSE Prefix(lists[2], 3)])

\* summary_result after the normalisation of the key points and the
\* extraction of a payload embedded in the summary text
NormalizeResult(sr) ==
    With([points |-> normalize_key_points(StrList(sr.key_points)),
          raw_summary_text |-> Strip(sr.summary)], LAMBDA n :
        With(extract_embedded_summary_payload(n.raw_summary_text), LAMBDA extracted :
            [summary |-> IF extracted[1] # <<>> THEN extracted[1]
                         ELSE decode_jsonish_text(n.raw_summary_text),
             key_points |-> IF extracted[2] # <<>> /\ n.points = <<>>
                            THEN normalize_key_points(StrList(extracted[2]))
                            ELSE n.points]))

\* the summary generate_minutes_with_ai builds when the summary is empty
ServiceFallbackSummary(m, lang) ==
    With(FallbackTexts[lang], LAMBDA tx :
        tx.prelim \o m.title \o <<"'", ":", " ">> \o
        (IF m.description # <<>>
         THEN Prefix(m.description, 360) \o <<".", " ">> \o tx.add_transcript
         ELSE IF llm_fallback_transcript(m) # <<>>
         THEN Prefix(llm_fallback_transcript(m), 420) \o <<".", " ">> \o tx.refine_draft
         ELSE IF m.related_docs # <<>> THEN tx.docs_available
         ELSE tx.limited))

\* a fallback that adds no key point
NoFallbackPoints(m, lang) == <<>>

\* fallback_points[:5] before its normalisation
ServiceFallbackPoints(m, lang) ==
    With(FallbackTexts[lang], LAMBDA tx :
        With(CountBullet(m.action_rows, tx.actions_pre, tx.actions_post)
             \o CountBullet(m.decision_rows, tx.decisions_pre, tx.decisions_post)
             \o CountBullet(m.risk_rows, tx.risks_pre, tx.risks_post)
             \o CountBullet(m.related_docs, tx.docs_pre, tx.docs_post),
             LAMBDA fallback_points :
            Prefix(IF fallback_points = <<>> THEN <<tx.add_transcript_point>>
                   ELSE fallback_points, 5)))

\* summary_result after the fallbacks for an empty summary and for an empty
\* list of key points
SynthesizeResult(sr, m, lang) ==
    [summary |-> IF sr.summary = <<>> THEN ServiceFallbackSummary(m, lang) ELSE sr.summary,
     key_points |-> IF sr.key_points = <<>>
                    THEN normalize_key_points(StrList(ServiceFallbackPoints(m, lang)))
                    ELSE sr.key_points]

\* the arguments of the call of _expand_summary_if_needed; next_steps is
\* still the empty list there
ExpandArguments(sr, m) ==
    [summary |-> sr.summary,
     meeting_title |-> m.title,
     meeting_desc |-> m.description,
     key_points |-> sr.key_points,
     action_rows |-> m.action_rows,
     decision_rows |-> m.decision_rows,
     risk_rows |-> m.risk_rows,
     next_steps |-> <<>>,
     topic_tracker |-> m.topic_tracker,
     transcript_excerpt |-> Prefix(llm_fallback_transcript(m), 1200)]

\* the arguments of the call of format_minutes that a claim reads: the
\* summary, the key points, the three lists of rows and the format
FormatArguments(sr, m, req) ==
    [summary |-> sr.summary,
     key_points |-> sr.key_points,
     action_rows |-> m.action_rows,
     decision_rows |-> m.decision_rows,
     risk_rows |-> m.risk_rows,
     format_type |-> req.format]

\* the columns of the stored record that receive the rendered minutes
ContentColumns(format) ==
    (IF format = "text" THEN {"minutes_text"} ELSE {})
    \cup (IF format = "markdown" THEN {"minutes_markdown", "minutes_html"} ELSE {})
    \cup (IF format = "html" THEN {"minutes_html"} ELSE {})

\* COALESCE(MAX(version), 0) + 1 over the stored minutes
NextVersion(stored) ==
    IF stored = <<>> THEN 1 ELSE Max({stored[i].version : i \in 1..Len(stored)}) + 1

----------------------------------------------------------------------------
(* generate_minutes_with_ai as a state machine: inputs *)

\* no meeting row for the requested id
MissingMeeting ==
    [exists |-> FALSE,
     title |-> <<>>,
     description |-> <<>>,
     transcript |->
        <<>>,
     action_rows |->
        <<>>,
     decision_rows |->
        <<>>,
     risk_rows |->
        <<>>,
     related_docs |->
        <<>>,
     topic_tracker |->
        <<>>]

\* a meeting with a title and nothing else
BareMeeting ==
    [exists |-> TRUE,
     title |-> <<"Q", "3", " ", "S", "y", "n", "c">>,
     description |-> <<>>,
     transcript |->
        <<>>,
     action_rows |->
        <<>>,
     decision_rows |->
        <<>>,
     risk_rows |->
        <<>>,
     related_docs |->
        <<>>,
     topic_tracker |->
        <<>>]

\* a meeting with only a description
DescribedMeeting ==
    [exists |-> TRUE,
     title |-> <<"Q", "3", " ", "S", "y", "n", "c">>,
     description |-> <<"D", "i", "s", "c", "u", "s", "s", " ", "Q", "3", " ", "r", "o", "a", "d", "m", "a", "p">>,
     transcript |->
        <<>>,
     action_rows |->
        <<>>,
     decision_rows |->
        <<>>,
     risk_rows |->
        <<>>,
     related_docs |->
        <<>>,
     topic_tracker |->
        <<>>]

\* a meeting with only a transcript
RecordedMeeting ==
    [exists |-> TRUE,
     title |-> <<"Q", "3", " ", "S", "y", "n", "c">>,
     description |-> <<>>,
     transcript |->
        <<"A", "l", "i", "c", "e", ":", " ", "s", "h", "i", "p", " ", "v", "2", " ", "o", "n", " ",
          "F", "r", "i", "d", "a", "y", ".", "\n", "B", "o", "b", ":", " ", "t", "h", "e", " ",
          "b", "u", "d", "g", "e", "t", " ", "i", "s", " ", "a", "p", "p", "r", "o", "v", "e", "d",
          ".">>,
     action_rows |->
        <<>>,
     decision_rows |->
        <<>>,
     risk_rows |->
        <<>>,
     related_docs |->
        <<>>,
     topic_tracker |->
        <<>>]

\* a meeting with only action, decision and risk rows
TrackedMeeting ==
    [exists |-> TRUE,
     title |-> <<"Q", "3", " ", "S", "y", "n", "c">>,
     description |-> <<>>,
     transcript |->
        <<>>,
     action_rows |->
        <<[description |-> <<"S", "h", "i", "p", " ", "v", "2">>, owner |-> <<"A", "n">>],
          [description |-> <<"U", "p", "d", "a", "t", "e", " ", "b", "u", "d", "g", "e", "t">>, owner |-> <<>>]>>,
     decision_rows |->
        <<[description |-> <<"G", "o", " ", "w", "i", "t", "h", " ", "p", "l", "a", "n", " ", "B">>]>>,
     risk_rows |->
        <<[description |-> <<"B", "u", "d", "g", "e", "t", " ", "o", "v", "e", "r", "r", "u", "n">>, severity |-> <<"h", "i", "g", "h">>]>>,
     related_docs |->
        <<>>,
     topic_tracker |->
        <<>>]

\* a meeting with only related documents
DocumentedMeeting ==
    [exists |-> TRUE,
     title |-> <<"Q", "3", " ", "S", "y", "n", "c">>,
     description |-> <<>>,
     transcript |->
        <<>>,
     action_rows |->
        <<>>,
     decision_rows |->
        <<>>,
     risk_rows |->
        <<>>,
     related_docs |->
        <<<<"R", "o", "a", "d", "m", "a", "p", " ", "(", "p", "d", "f", ")", " ", "-", " ", "Q",
            "3", " ", "p", "l", "a", "n">>,
          <<"N", "o", "t", "e", "s", " ", "(", "d", "o", "c", "x", ")", " ", "-">>>>,
     topic_tracker |->
        <<>>]

\* a meeting with every kind of evidence
FullMeeting ==
    [exists |-> TRUE,
     title |-> <<"Q", "3", " ", "S", "y", "n", "c">>,
     description |-> <<"D", "i", "s", "c", "u", "s", "s", " ", "Q", "3", " ", "r", "o", "a", "d", "m", "a", "p">>,
     transcript |->
        <<"A", "l", "i", "c", "e", ":", " ", "s", "h", "i", "p", " ", "v", "2", " ", "o", "n", " ",
          "F", "r", "i", "d", "a", "y", ".", "\n", "B", "o", "b", ":", " ", "t", "h", "e", " ",
          "b", "u", "d", "g", "e", "t", " ", "i", "s", " ", "a", "p", "p", "r", "o", "v", "e", "d",
          ".">>,
     action_rows |->
        <<[description |-> <<"S", "h", "i", "p", " ", "v", "2">>, owner |-> <<"A", "n">>],
          [description |-> <<"U", "p", "d", "a", "t", "e", " ", "b", "u", "d", "g", "e", "t">>, owner |-> <<>>]>>,
     decision_rows |->
        <<[description |-> <<"G", "o", " ", "w", "i", "t", "h", " ", "p", "l", "a", "n", " ", "B">>]>>,
     risk_rows |->
        <<[description |-> <<"B", "u", "d", "g", "e", "t", " ", "o", "v", "e", "r", "r", "u", "n">>, severity |-> <<"h", "i", "g", "h">>]>>,
     related_docs |->
        <<<<"R", "o", "a", "d", "m", "a", "p", " ", "(", "p", "d", "f", ")", " ", "-", " ", "Q",
            "3", " ", "p", "l", "a", "n">>>>,
     topic_tracker |->
        <<<<"R", "o", "a", "d", "m", "a", "p">>,
          <<"B", "u", "d", "g", "e", "t">>>>]

\* a meeting whose stored rows hold a placeholder description and an empty one
VagueMeeting ==
    [exists |-> TRUE,
     title |-> <<"Q", "3", " ", "S", "y", "n", "c">>,
     description |-> <<>>,
     transcript |->
        <<>>,
     action_rows |->
        <<[description |-> <<"N", "/", "A">>, owner |-> <<"A", "n">>],
          [description |-> <<"S", "h", "i", "p", " ", "v", "2">>, owner |-> <<>>]>>,
     decision_rows |->
        <<[description |-> <<>>]>>,
     risk_rows |->
        <<>>,
     related_docs |->
        <<>>,
     topic_tracker |->
        <<>>]

Meetings ==
    {MissingMeeting,
     BareMeeting,
     DescribedMeeting,
     RecordedMeeting,
     TrackedMeeting,
     DocumentedMeeting,
     FullMeeting,
     VagueMeeting}

\* what the provider returns when it returns: nothing, a well-formed or a
\* relaxed payload, prose, thirteen key points, placeholders only, wrong
\* field types, unexpected nesting, a payload inside the summary, invalid
\* JSON, the fenced relaxed payload with a repeated key point, an escape
\* sequence written out, a code fence around nothing, a summary of 140 words
Replies ==
    [empty |->
        <<>>,
     blank |->
        <<" ", " ", "\n">>,
     wellformed |->
        <<"{", "\"", "s", "u", "m", "m", "a", "r", "y", "\"", ":", " ", "\"", "T", "e", "a", "m",
          " ", "a", "g", "r", "e", "e", "d", " ", "t", "o", " ", "s", "h", "i", "p", " ", "v", "2",
          ".", "\"", ",", " ", "\"", "k", "e", "y", "_", "p", "o", "i", "n", "t", "s", "\"", ":",
          " ", "[", "\"", "S", "h", "i", "p", " ", "v", "2", " ", "o", "n", " ", "F", "r", "i",
          "d", "a", "y", "\"", ",", " ", "\"", "B", "u", "d", "g", "e", "t", " ", "a", "p", "p",
          "r", "o", "v", "e", "d", "\"", "]", "}">>,
     relaxed |->
        <<"U+0060", "U+0060", "U+0060", "j", "s", "o", "n", "\n", "{", "s", "u", "m", "m", "a",
          "r", "y", ":", " ", "'", "A", "l", "l", " ", "g", "o", "o", "d", "'", ",", " ", "k", "e",
          "y", "_", "p", "o", "i", "n", "t", "s", ":", " ", "[", "'", "A", "'", ",", "'", "B", "'",
          ",", "'", "A", "'", "]", "}", "\n", "U+0060", "U+0060", "U+0060">>,
     prose |->
        <<"I", " ", "c", "o", "u", "l", "d", " ", "n", "o", "t", " ", "p", "r", "o", "d", "u", "c",
          "e", " ", "m", "i", "n", "u", "t", "e", "s", ".">>,
     heading |->
        <<"K", "e", "y", " ", "P", "o", "i", "n", "t", "s", ":", "\n", "-", " ", "R", "e", "v",
          "e", "n", "u", "e", " ", "i", "s", " ", "u", "p", "\n", "-", " ", "H", "i", "r", "i",
          "n", "g", " ", "p", "a", "u", "s", "e", "d">>,
     thirteen |->
        <<"{", "\"", "s", "u", "m", "m", "a", "r", "y", "\"", ":", " ", "\"", "L", "o", "n", "g",
          " ", "l", "i", "s", "t", "\"", ",", " ", "\"", "k", "e", "y", "_", "p", "o", "i", "n",
          "t", "s", "\"", ":", " ", "[", "\"", "P", "o", "i", "n", "t", " ", "a", "\"", ",", " ",
          "\"", "P", "o", "i", "n", "t", " ", "b", "\"", ",", " ", "\"", "P", "o", "i", "n", "t",
          " ", "c", "\"", ",", " ", "\"", "P", "o", "i", "n", "t", " ", "d", "\"", ",", " ", "\"",
          "P", "o", "i", "n", "t", " ", "e", "\"", ",", " ", "\"", "P", "o", "i", "n", "t", " ",
          "f", "\"", ",", " ", "\"", "P", "o", "i", "n", "t", " ", "g", "\"", ",", " ", "\"", "P",
          "o", "i", "n", "t", " ", "h", "\"", ",", " ", "\"", "P", "o", "i", "n", "t", " ", "i",
          "\"", ",", " ", "\"", "P", "o", "i", "n", "t", " ", "j", "\"", ",", " ", "\"", "P", "o",
          "i", "n", "t", " ", "k", "\"", ",", " ", "\"", "P", "o", "i", "n", "t", " ", "l", "\"",
          ",", " ", "\"", "P", "o", "i", "n", "t", " ", "m", "\"", "]", "}">>,
     placeholders |->
        <<"{", "\"", "s", "u", "m", "m", "a", "r", "y", "\"", ":", " ", "\"", "\"", ",", " ", "\"",
          "k", "e", "y", "_", "p", "o", "i", "n", "t", "s", "\"", ":", " ", "[", "\"", "U", "n",
          "k", "n", "o", "w", "n", "\"", ",", " ", "\"", "N", "/", "A", "\"", "]", "}">>,
     wrong_types |->
        <<"{", "\"", "s", "u", "m", "m", "a", "r", "y", "\"", ":", " ", "3", ",", " ", "\"", "k",
          "e", "y", "_", "p", "o", "i", "n", "t", "s", "\"", ":", " ", "{", "\"", "a", "\"", ":",
          " ", "1", "}", ",", " ", "\"", "d", "a", "t", "a", "\"", ":", " ", "[", "1", "]", "}">>,
     nesting |->
        <<"[", "{", "\"", "d", "a", "t", "a", "\"", ":", " ", "{", "\"", "s", "u", "m", "m", "a",
          "r", "y", "\"", ":", " ", "{", "\"", "t", "e", "x", "t", "\"", ":", " ", "\"", "d", "e",
          "e", "p", "\"", "}", ",", " ", "\"", "k", "e", "y", "_", "p", "o", "i", "n", "t", "s",
          "\"", ":", " ", "[", "[", "\"", "n", "\"", "]", ",", " ", "n", "u", "l", "l", ",", " ",
          "5", "]", "}", "}", "]">>,
     embedded |->
        <<"{", "\"", "s", "u", "m", "m", "a", "r", "y", "\"", ":", " ", "\"", "{", "\\", "\"", "s",
          "u", "m", "m", "a", "r", "y", "\\", "\"", ":", " ", "\\", "\"", "I", "n", "n", "e", "r",
          "\\", "\"", ",", " ", "\\", "\"", "k", "e", "y", "_", "p", "o", "i", "n", "t", "s", "\\",
          "\"", ":", " ", "[", "\\", "\"", "X", "\\", "\"", "]", "}", "\"", "}">>,
     truncated |->
        <<"{", "\"", "s", "u", "m", "m", "a", "r", "y", "\"", ":", " ", "\"", "b", "r", "o", "k",
          "e", "n">>,
     scenario1 |->
        <<"U+0060", "U+0060", "U+0060", "j", "s", "o", "n", "\n", "{", "s", "u", "m", "m", "a",
          "r", "y", ":", " ", "'", "A", "l", "l", " ", "g", "o", "o", "d", "'", ",", " ", "k",
          "e", "y", "_", "p", "o", "i", "n", "t", "s", ":", " ", "[", "'", "A", "'", ",", "'",
          "B", "'", ",", "'", "A", "'", "]", "}", "\n", "U+0060", "U+0060", "U+0060">>,
     escape_only |->
        <<"\\", "n">>,
     empty_fence |->
        <<"U+0060", "U+0060", "U+0060", "j", "s", "o", "n", "\n", "U+0060", "U+0060", "U+0060">>,
     long |->
        <<"{", "\"", "s", "u", "m", "m", "a", "r", "y", "\"", ":", " ", "\"", "w", " ", "w", " ",
          "w", " ", "w", " ", "w", " ", "w", " ", "w", " ", "w", " ", "w", " ", "w", " ", "w", " ",
          "w", " ", "w", " ", "w", " ", "w", " ", "w", " ", "w", " ", "w", " ", "w", " ", "w", " ",
          "w", " ", "w", " ", "w", " ", "w", " ", "w", " ", "w", " ", "w", " ", "w", " ", "w", " ",
          "w", " ", "w", " ", "w", " ", "w", " ", "w", " ", "w", " ", "w", " ", "w", " ", "w", " ",
          "w", " ", "w", " ", "w", " ", "w", " ", "w", " ", "w", " ", "w", " ", "w", " ", "w", " ",
          "w", " ", "w", " ", "w", " ", "w", " ", "w", " ", "w", " ", "w", " ", "w", " ", "w", " ",
          "w", " ", "w", " ", "w", " ", "w", " ", "w", " ", "w", " ", "w", " ", "w", " ", "w", " ",
          "w", " ", "w", " ", "w", " ", "w", " ", "w", " ", "w", " ", "w", " ", "w", " ", "w", " ",
          "w", " ", "w", " ", "w", " ", "w", " ", "w", " ", "w", " ", "w", " ", "w", " ", "w", " ",
          "w", " ", "w", " ", "w", " ", "w", " ", "w", " ", "w", " ", "w", " ", "w", " ", "w", " ",
          "w", " ", "w", " ", "w", " ", "w", " ", "w", " ", "w", " ", "w", " ", "w", " ", "w", " ",
          "w", " ", "w", " ", "w", " ", "w", " ", "w", " ", "w", " ", "w", " ", "w", " ", "w", " ",
          "w", " ", "w", " ", "w", " ", "w", " ", "w", " ", "w", " ", "w", " ", "w", " ", "w", " ",
          "w", " ", "w", " ", "w", " ", "w", " ", "w", " ", "w", " ", "w", " ", "w", " ", "w", " ",
          "w", " ", "w", " ", "w", " ", "w", " ", "w", " ", "w", " ", "w", " ", "w", " ", "w", " ",
          "w", " ", "w", " ", "w", "\"", "}">>]

\* the provider configurations: no key at all, an override without its key,
\* a Gemini key, an override to Groq with its key
ProviderConfigs ==
    {[override |-> "auto", gemini_key |-> FALSE, groq_key |-> FALSE],
     [override |-> "groq", gemini_key |-> TRUE, groq_key |-> FALSE],
     [override |-> "gemini", gemini_key |-> FALSE, groq_key |-> TRUE],
     [override |-> "auto", gemini_key |-> TRUE, groq_key |-> TRUE],
     [override |-> "groq", gemini_key |-> FALSE, groq_key |-> TRUE]}

\* what the provider call does: it raises, or it returns one of the replies
ProviderOutcomes ==
    {[outcome |-> "error", reply |-> <<>>]}
    \cup {[outcome |-> "reply", reply |-> Replies[k]] : k \in DOMAIN Replies}

\* a configuration together with the outcome of the provider call; without
\* a provider there is no call and so one outcome only
LlmCases ==
    {[override |-> c.override, gemini_key |-> c.gemini_key, groq_key |-> c.groq_key,
      outcome |-> o.outcome, reply |-> o.reply] :
        c \in ProviderConfigs,
        o \in ProviderOutcomes} \ 
    {l \in [override : {"auto", "groq", "gemini"}, gemini_key : BOOLEAN, groq_key : BOOLEAN,
            outcome : {"reply"}, reply : {Replies[k] : k \in DOMAIN Replies}] :
        select_provider(l) = "mock"}

PromptStrategies == {<<>>, StructuredJson}

\* the formats a request may name, and one that is none of them
Formats == {"markdown", "html", "text"}
RequestedFormats == Formats \cup {"pdf"}

\* the requests of the generations: the two strategies, rendered as markdown
Requests == [prompt_strategy : PromptStrategies, format : {"markdown"}]

LanguageSettings == {<<"v", "i">>, <<"e", "n">>}

----------------------------------------------------------------------------
(* generate_minutes_with_ai as a state machine: one step per stage *)

\* The transcripts of the meetings are shorter than
\* MAX_DIRECT_TRANSCRIPT_CHARS, so the window summaries are not computed;
\* no template is requested, so the minutes are rendered by format_minutes.
\* The prompt, the keywords, the topics and the rendered text are not part
\* of the state: the summary and the key points do not depend on them.

MinutesInit ==
    /\ ParseIdle
    /\ PointsIdle
    /\ OthersIdle
    /\ pc = "start"
    /\ meeting \in Meetings
    /\ request \in Requests
    /\ language \in LanguageSettings
    /\ llm \in LlmCases
    /\ response = <<>>
    /\ summary_result = [summary |-> <<>>, key_points |-> <<>>]
    /\ render_args = NoneValue
    /\ minutes = <<>>

\* whether the structured strategy is taken: the strategy and a transcript
TakesStructured == prompt_strategy(request) = StructuredJson /\ meeting.transcript # <<>>

\* no meeting row: ValueError to the caller
MeetingNotFound ==
    /\ pc = "start"
    /\ ~meeting.exists
    /\ pc' = "raised"
    /\ UNCHANGED <<parseVars, pointsVars, minutesVars, otherVars>>

\* the rows, the documents and the context are loaded, the assistant is built
LoadContext ==
    /\ pc = "start"
    /\ meeting.exists
    /\ pc' = "summarize"
    /\ UNCHANGED <<parseVars, pointsVars, minutesVars, otherVars>>

\* the structured strategy: the call of generate_minutes_json ends with an
\* exception, and the except branch sets summary_result from the context
StructuredCall ==
    /\ pc = "summarize"
    /\ TakesStructured
    /\ StructuredCallOutcome # "none"
    /\ IF Catches(StructuredCallOutcome)
       THEN /\ summary_result' = ExceptResult(meeting, ServiceLang(language))
            /\ pc' = "normalize"
       ELSE /\ pc' = "raised"
            /\ UNCHANGED summary_result
    /\ UNCHANGED <<parseVars, pointsVars, otherVars, meeting, request, language, llm, response,
                   render_args, minutes>>

\* the context strategy: the chat call inside generate_summary_with_context
ChatCall ==
    /\ pc = "summarize"
    /\ ~TakesStructured
    /\ response' = chat(llm)
    /\ pc' = "extract"
    /\ UNCHANGED <<parseVars, pointsVars, otherVars, meeting, request, language, llm,
                   summary_result, render_args, minutes>>

\* the rest of generate_summary_with_context: its return value
ExtractSummary ==
    /\ pc = "extract"
    /\ summary_result' = generate_summary_with_context(response, context_payload(meeting),
                                                       AssistantLang(language))
    /\ pc' = "normalize"
    /\ UNCHANGED <<parseVars, pointsVars, otherVars, meeting, request, language, llm, response,
                   render_args, minutes>>

NormalizeSummary ==
    /\ pc = "normalize"
    /\ summary_result' = NormalizeResult(summary_result)
    /\ pc' = "fallback"
    /\ UNCHANGED <<parseVars, pointsVars, otherVars, meeting, request, language, llm, response,
                   render_args, minutes>>

SynthesizeFallback ==
    /\ pc = "fallback"
    /\ summary_result' = SynthesizeResult(summary_result, meeting, ServiceLang(language))
    /\ pc' = "expand"
    /\ UNCHANGED <<parseVars, pointsVars, otherVars, meeting, request, language, llm, response,
                   render_args, minutes>>

ExpandSummary ==
    /\ pc = "expand"
    /\ summary_result' =
            [summary_result EXCEPT
                !.summary = expand_summary_if_needed(ExpandArguments(summary_result, meeting),
                                                     ServiceLang(language))]
    /\ pc' = "render"
    /\ UNCHANGED <<parseVars, pointsVars, otherVars, meeting, request, language, llm, response,
                   render_args, minutes>>

\* the call of format_minutes: it takes the rows as they were loaded and the
\* format of the request, and it returns for every format_type
RenderMinutes ==
    /\ pc = "render"
    /\ render_args' = FormatArguments(summary_result, meeting, request)
    /\ pc' = "persist"
    /\ UNCHANGED <<parseVars, pointsVars, otherVars, meeting, request, language, llm, response,
                   summary_result, minutes>>

\* create_minutes stores the rendered minutes as a draft with the next
\* version; the record keeps the fields that are read here
PersistDraft ==
    /\ pc = "persist"
    /\ minutes' = Append(minutes, [version |-> NextVersion(minutes),
                                   content_columns |-> ContentColumns(request.format),
                                   executive_summary |-> summary_result.summary,
                                   status |-> "draft"])
    /\ pc' = "done"
    /\ UNCHANGED <<parseVars, pointsVars, otherVars, meeting, request, language, llm, response,
                   summary_result, render_args>>

MinutesNext ==
    \/ MeetingNotFound
    \/ LoadContext
    \/ StructuredCall
    \/ ChatCall
    \/ ExtractSummary
    \/ NormalizeSummary
    \/ SynthesizeFallback
    \/ ExpandSummary
    \/ RenderMinutes
    \/ PersistDraft

SpecMinutes == MinutesInit /\ [][MinutesNext]_vars

----------------------------------------------------------------------------
(* generate_minutes_with_ai over the formats of a request *)

\* the provider of these generations: none, or one that raises, returns
\* nothing or returns the well-formed payload
FormatLlmCases ==
    {l \in LlmCases : l.override = "auto" /\ l.reply \in {<<>>, Replies.wellformed}}

FormatsInit ==
    /\ ParseIdle
    /\ PointsIdle
    /\ OthersIdle
    /\ pc = "start"
    /\ meeting \in {MissingMeeting, RecordedMeeting, VagueMeeting}
    /\ request \in [prompt_strategy : PromptStrategies, format : RequestedFormats]
    /\ language \in LanguageSettings
    /\ llm \in FormatLlmCases
    /\ response = <<>>
    /\ summary_result = [summary |-> <<>>, key_points |-> <<>>]
    /\ render_args = NoneValue
    /\ minutes = <<>>

SpecFormats == FormatsInit /\ [][MinutesNext]_vars

----------------------------------------------------------------------------
(* minutes_service.py: _safe_json_list, _normalize_rows_from_llm *)

\* bool(value): what "or" tests
Truthy(v) ==
    IF v.t = "None" THEN FALSE
    ELSE IF v.t = "str" THEN v.s # <<>>
    ELSE IF v.t = "int" THEN v.s \notin {<<"0">>, <<"-", "0">>}
    ELSE IF v.t = "bool" THEN v.s = <<"T", "r", "u", "e">>
    ELSE v.kids # <<>>

\* the dict items of a list, nothing for any other value
safe_json_list(value) ==
    IF value.t = "list" THEN SelectSeq(Items(value), LAMBDA item : item.t = "dict") ELSE <<>>

\* str(row.get(k1) or row.get(k2) or default).strip()
FieldText(row, keys, default) ==
    With({k \in 1..Len(keys) : Truthy(DictGet(row, keys[k]))}, LAMBDA hit :
        Strip(IF hit = {} THEN default ELSE PyStr(DictGet(row, keys[Min(hit)]))))

\* the row appended for one dict of the payload, by row_type
NormalizedRow(row, rowType) ==
    IF rowType = "action"
    THEN [description |-> FieldText(row, <<<<"d", "e", "s", "c", "r", "i", "p", "t", "i", "o",
          "n">>, <<"t", "a", "s", "k">>>>, <<>>),
          owner |-> FieldText(row, <<<<"o", "w", "n", "e", "r">>, <<"c", "r", "e", "a", "t", "e",
                "d", "_", "b", "y">>>>, <<"U", "n", "a", "s", "s", "i", "g", "n", "e", "d">>),
          deadline |-> FieldText(row, <<<<"d", "e", "a", "d", "l", "i", "n", "e">>>>, <<>>),
          priority |-> FieldText(row, <<<<"p", "r", "i", "o", "r", "i", "t", "y">>>>, <<"m", "e",
                "d", "i", "u", "m">>),
          status |-> FieldText(row, <<<<"s", "t", "a", "t", "u", "s">>>>, <<"p", "r", "o", "p",
                "o", "s", "e", "d">>)]
    ELSE IF rowType = "decision"
    THEN [description |-> FieldText(row, <<<<"d", "e", "s", "c", "r", "i", "p", "t", "i", "o",
          "n">>, <<"t", "i", "t", "l", "e">>>>, <<>>),
          rationale |-> FieldText(row, <<<<"r", "a", "t", "i", "o", "n", "a", "l", "e">>>>, <<>>),
          status |-> FieldText(row, <<<<"s", "t", "a", "t", "u", "s">>>>, <<"p", "r", "o", "p",
                "o", "s", "e", "d">>),
          confirmed_by |-> FieldText(row, <<<<"a", "p", "p", "r", "o", "v", "e", "d", "_", "b",
                "y">>, <<"d", "e", "c", "i", "d", "e", "d", "_", "b", "y">>>>, <<>>)]
    ELSE [description |-> FieldText(row, <<<<"d", "e", "s", "c", "r", "i", "p", "t", "i", "o",
          "n">>, <<"r", "i", "s", "k">>>>, <<>>),
          severity |-> FieldText(row, <<<<"s", "e", "v", "e", "r", "i", "t", "y">>>>, <<"m", "e",
                "d", "i", "u", "m">>),
          mitigation |-> FieldText(row, <<<<"m", "i", "t", "i", "g", "a", "t", "i", "o", "n">>>>,
                <<>>),
          status |-> FieldText(row, <<<<"s", "t", "a", "t", "u", "s">>>>, <<"p", "r", "o", "p",
                "o", "s", "e", "d">>),
          owner |-> FieldText(row, <<<<"r", "a", "i", "s", "e", "d", "_", "b", "y">>, <<"o", "w",
                "n", "e", "r">>>>, <<>>)]

\* the markers of a risk row that reports no risk
RiskSentinels ==
    {<<"n", "o", " ", "r", "i", "s", "k">>,
     <<"k", "h", "U+00F4", "n", "g", " ", "c", "U+00F3", " ", "r", "U+1EE7", "i", " ", "r", "o">>,
     <<"k", "h", "o", "n", "g", " ", "c", "o", " ", "r", "u", "i", " ", "r", "o">>,
     <<"n", "o", " ", "i", "s", "s", "u", "e">>,
     <<"k", "h", "U+00F4", "n", "g", " ", "c", "U+00F3", " ", "v", "U+1EA5", "n", " ", "U+0111",
           "U+1EC1">>,
     <<"k", "h", "o", "n", "g", " ", "c", "o", " ", "v", "a", "n", " ", "d", "e">>}

\* a sentinel test that finds nothing
MentionsNothing(desc) == FALSE

\* whether the lowered description holds one of the markers
MentionsNoRisk(desc) == \E marker \in RiskSentinels : Contains(Lower(desc), marker)

\* _is_valid_row on a normalised row
is_valid_row(row, rowType) ==
    With(Strip(row.description), LAMBDA desc :
        /\ desc # <<>>
        /\ ~is_placeholder_value(desc)
        /\ rowType = "risk" => ~MentionsNoRisk(desc))

\* the row types that append a row; any other type appends nothing
RowTypes == {"action", "decision", "risk"}

normalize_rows_from_llm(rawRows, rowType) ==
    IF rowType \notin RowTypes THEN <<>>
    ELSE With(safe_json_list(rawRows), LAMBDA rows :
            SelectSeq([i \in 1..Len(rows) |-> NormalizedRow(rows[i], rowType)],
                      LAMBDA r : is_valid_row(r, rowType)))

----------------------------------------------------------------------------
(* _normalize_rows_from_llm as a state machine: one call *)

\* the values a payload row carries as its description: sentinel phrases in
\* both languages and several letter cases, real risks, placeholders, blank
\* texts and values that are no text
DescriptionValues ==
    {StrValue(<<"N", "o", " ", "r", "i", "s", "k", "s", " ", "i", "d", "e", "n", "t", "i", "f",
          "i", "e", "d">>),
     StrValue(<<"N", "O", " ", "R", "I", "S", "K">>),
     StrValue(<<"T", "h", "e", "r", "e", " ", "i", "s", " ", "n", "o", " ", "R", "i", "s", "k",
           " ", "a", "t", " ", "t", "h", "i", "s", " ", "s", "t", "a", "g", "e">>),
     StrValue(<<"K", "h", "U+00F4", "n", "g", " ", "c", "U+00F3", " ", "r", "U+1EE7", "i", " ",
           "r", "o">>),
     StrValue(<<"K", "H", "U+00D4", "N", "G", " ", "C", "U+00D3", " ", "R", "U+1EE6", "I", " ",
           "R", "O">>),
     StrValue(<<"k", "h", "o", "n", "g", " ", "c", "o", " ", "r", "u", "i", " ", "r", "o", " ",
           "n", "a", "o">>),
     StrValue(<<"N", "o", " ", "i", "s", "s", "u", "e", "s", " ", "f", "o", "u", "n", "d">>),
     StrValue(<<"K", "h", "U+00F4", "n", "g", " ", "c", "U+00F3", " ", "v", "U+1EA5", "n", " ",
           "U+0111", "U+1EC1">>),
     StrValue(<<"K", "H", "U+00D4", "N", "G", " ", "C", "U+00D3", " ", "V", "U+1EA4", "N", " ",
           "U+0110", "U+1EC0">>),
     StrValue(<<"K", "h", "o", "n", "g", " ", "c", "o", " ", "v", "a", "n", " ", "d", "e">>),
     StrValue(<<"V", "e", "n", "d", "o", "r", " ", "d", "e", "l", "a", "y", ",", " ", "n", "o",
           " ", "i", "s", "s", "u", "e", " ", "s", "o", " ", "f", "a", "r">>),
     StrValue(<<"B", "u", "d", "g", "e", "t", " ", "o", "v", "e", "r", "r", "u", "n">>),
     StrValue(<<" ", "L", "a", "t", "e", " ", "v", "e", "n", "d", "o", "r", " ">>),
     StrValue(<<"N", "/", "A">>),
     StrValue(<<"U", "n", "k", "n", "o", "w", "n">>),
     StrValue(<<>>),
     StrValue(<<" ", " ">>),
     NoneValue,
     IntValue(<<"0">>),
     IntValue(<<"7">>),
     ListValue(<<StrValue(<<"N", "o", " ", "r", "i", "s", "k", "s">>)>>)}

\* the keys a payload row may carry its description under
DescriptionKeys == {<<"d", "e", "s", "c", "r", "i", "p", "t", "i", "o", "n">>, <<"r", "i", "s",
      "k">>, <<"t", "a", "s", "k">>, <<"t", "i", "t", "l", "e">>}

\* a payload row with the description d under key
PayloadRow(key, d) ==
    DictValue(<<Entry(key, d), Entry(<<"s", "e", "v", "e", "r", "i", "t", "y">>, StrValue(<<"h",
          "i", "g", "h">>)),
                Entry(<<"o", "w", "n", "e", "r">>, StrValue(<<"A", "n">>))>>)

\* the payloads: one row, a real row followed by a second row, a list with
\* items that are no dict, and values that are no list
RawRows ==
    {ListValue(<<PayloadRow(key, d)>>) : key \in DescriptionKeys, d \in DescriptionValues}
    \cup {ListValue(<<PayloadRow(<<"d", "e", "s", "c", "r", "i", "p", "t", "i", "o", "n">>,
          StrValue(<<"B", "u", "d", "g", "e", "t", " ", "o", "v", "e", "r", "r", "u", "n">>)),
                      PayloadRow(<<"d", "e", "s", "c", "r", "i", "p", "t", "i", "o", "n">>,
                            d)>>) : d \in DescriptionValues}
    \cup {ListValue(<<StrValue(<<"N", "o", " ", "r", "i", "s", "k", "s">>), IntValue(<<"3">>),
                      PayloadRow(<<"r", "i", "s", "k">>, StrValue(<<"K", "e", "y", " ", "p", "e",
                            "r", "s", "o", "n", " ", "l", "e", "a", "v", "e", "s">>))>>),
          ListValue(<<>>),
          NoneValue,
          StrValue(<<"N", "o", " ", "r", "i", "s", "k", "s">>),
          PayloadRow(<<"d", "e", "s", "c", "r", "i", "p", "t", "i", "o", "n">>, StrValue(<<"B",
                "u", "d", "g", "e", "t", " ", "o", "v", "e", "r", "r", "u", "n">>))}

RowsInit ==
    /\ ParseIdle
    /\ PointsIdle
    /\ MinutesIdle
    /\ RenderIdle
    /\ LanguageIdle
    /\ RecoverIdle
    /\ ServicesIdle
    /\ pc = "start"
    /\ row_type \in RowTypes \cup {"topic"}
    /\ raw_rows \in RawRows
    /\ rowsOut = <<>>

NormalizeRows ==
    /\ pc = "start"
    /\ rowsOut' = normalize_rows_from_llm(raw_rows, row_type)
    /\ pc' = "done"
    /\ UNCHANGED <<row_type, raw_rows, parseVars, pointsVars, minutesVars, renderVars,
                   languageVars, recoverVars, serviceVars>>

RowsNext == NormalizeRows

SpecRows == RowsInit /\ [][RowsNext]_vars

----------------------------------------------------------------------------
(* minutes_service.py: format_minutes *)

\* the texts format_minutes writes in the output language
RenderTexts ==
    [vi |->
        [no_summary |-> <<"_", "C", "h", "U+01B0", "a", " ", "c", "U+00F3", " ", "t", "U+00F3",
              "m", " ", "t", "U+1EAF", "t", " ", "U+0111", "i", "U+1EC1", "u", " ", "h",
              "U+00E0", "n", "h", ".", "_">>,
         no_key_points |-> <<"-", " ", "C", "h", "U+01B0", "a", " ", "c", "U+00F3", " ",
               "U+0111", "i", "U+1EC3", "m", " ", "c", "h", "U+00ED", "n", "h", " ", "U+0111",
               "U+01B0", "U+1EE3", "c", " ", "t", "r", "U+00ED", "c", "h", " ", "x", "u",
               "U+1EA5", "t", ".">>,
         keywords_header |-> <<"#", "#", " ", "T", "U+1EEB", " ", "k", "h", "U+00F3", "a", " ",
               "t", "r", "U+1ECD", "n", "g", " ", "t", "U+00E2", "m">>,
         no_keywords |-> <<"-", " ", "C", "h", "U+01B0", "a", " ", "c", "U+00F3", " ", "t",
               "U+1EEB", " ", "k", "h", "U+00F3", "a", " ", "n", "U+1ED5", "i", " ", "b",
               "U+1EAD", "t", ".">>,
         topics_header |-> <<"#", "#", " ", "C", "h", "U+1EE7", " ", "U+0111", "U+1EC1", " ",
               "c", "h", "U+00ED", "n", "h">>,
         no_topics |-> <<"-", " ", "C", "h", "U+01B0", "a", " ", "c", "U+00F3", " ", "c", "h",
               "U+1EE7", " ", "U+0111", "U+1EC1", " ", "n", "U+1ED5", "i", " ", "b", "U+1EAD",
               "t", ".">>,
         no_decisions |-> <<"-", " ", "C", "h", "U+01B0", "a", " ", "g", "h", "i", " ", "n", "h",
               "U+1EAD", "n", " ", "q", "u", "y", "U+1EBF", "t", " ", "U+0111", "U+1ECB", "n",
               "h", " ", "c", "U+1EE5", " ", "t", "h", "U+1EC3", ".">>,
         no_actions |-> <<"-", " ", "C", "h", "U+01B0", "a", " ", "c", "U+00F3", " ", "U+0111",
               "U+1EA7", "u", " ", "v", "i", "U+1EC7", "c", " ", "c", "U+1EA7", "n", " ", "t",
               "h", "e", "o", " ", "d", "U+00F5", "i", ".">>,
         no_risks |-> <<"-", " ", "C", "h", "U+01B0", "a", " ", "g", "h", "i", " ", "n", "h",
               "U+1EAD", "n", " ", "r", "U+1EE7", "i", " ", "r", "o", " ", "n", "U+1ED5", "i",
               " ", "b", "U+1EAD", "t", ".">>,
         no_ai_filters |-> <<"-", " ", "C", "h", "U+01B0", "a", " ", "c", "U+00F3", " ", "b",
               "U+1ED9", " ", "l", "U+1ECD", "c", " ", "A", "I", ".">>,
         no_topic_tracker |-> <<"-", " ", "C", "h", "U+01B0", "a", " ", "c", "U+00F3", " ", "d",
               "U+1EEF", " ", "l", "i", "U+1EC7", "u", " ", "t", "h", "e", "o", " ", "d",
               "U+00F5", "i", " ", "c", "h", "U+1EE7", " ", "U+0111", "U+1EC1", ".">>,
         no_concepts |-> <<"-", " ", "C", "h", "U+01B0", "a", " ", "c", "U+00F3", " ", "d",
               "U+1EEF", " ", "l", "i", "U+1EC7", "u", " ", "k", "h", "U+00E1", "i", " ", "n",
               "i", "U+1EC7", "m", ".">>,
         formulas_header |-> <<"#", "#", " ", "C", "U+00F4", "n", "g", " ", "t", "h", "U+1EE9",
               "c", " ", "q", "u", "a", "n", " ", "t", "r", "U+1ECD", "n", "g">>,
         no_formulas |-> <<"-", " ", "C", "h", "U+01B0", "a", " ", "c", "U+00F3", " ", "d",
               "U+1EEF", " ", "l", "i", "U+1EC7", "u", " ", "c", "U+00F4", "n", "g", " ", "t",
               "h", "U+1EE9", "c", ".">>,
         no_question |-> <<"C", "h", "U+01B0", "a", " ", "c", "U+00F3", " ", "n", "U+1ED9", "i",
               " ", "d", "u", "n", "g", " ", "c", "U+00E2", "u", " ", "h", "U+1ECF", "i">>,
         answer |-> <<" ", " ", " ", "-", " ", "*", "*", "U+0110", "U+00E1", "p", " ", "U+00E1",
               "n", ":", "*", "*", " ">>,
         no_quiz |-> <<"-", " ", "C", "h", "U+01B0", "a", " ", "c", "U+00F3", " ", "c", "U+00E2",
               "u", " ", "h", "U+1ECF", "i", " ", "U+00F4", "n", " ", "t", "U+1EAD", "p", ".">>,
         no_next_steps |-> <<"-", " ", "C", "h", "U+01B0", "a", " ", "x", "U+00E1", "c", " ",
               "U+0111", "U+1ECB", "n", "h", " ", "b", "U+01B0", "U+1EDB", "c", " ", "t", "i",
               "U+1EBF", "p", " ", "t", "h", "e", "o", ".">>],
     en |->
        [no_summary |-> <<"_", "N", "o", " ", "e", "x", "e", "c", "u", "t", "i", "v", "e", " ",
              "s", "u", "m", "m", "a", "r", "y", " ", "a", "v", "a", "i", "l", "a", "b", "l",
              "e", ".", "_">>,
         no_key_points |-> <<"-", " ", "N", "o", " ", "k", "e", "y", " ", "p", "o", "i", "n",
               "t", "s", " ", "e", "x", "t", "r", "a", "c", "t", "e", "d", " ", "y", "e", "t",
               ".">>,
         keywords_header |-> <<"#", "#", " ", "C", "o", "r", "e", " ", "k", "e", "y", "w", "o",
               "r", "d", "s">>,
         no_keywords |-> <<"-", " ", "N", "o", " ", "n", "o", "t", "a", "b", "l", "e", " ", "k",
               "e", "y", "w", "o", "r", "d", "s", " ", "y", "e", "t", ".">>,
         topics_header |-> <<"#", "#", " ", "P", "r", "i", "m", "a", "r", "y", " ", "t", "o",
               "p", "i", "c", "s">>,
         no_topics |-> <<"-", " ", "N", "o", " ", "p", "r", "i", "m", "a", "r", "y", " ", "t",
               "o", "p", "i", "c", "s", " ", "a", "v", "a", "i", "l", "a", "b", "l", "e", ".">>,
         no_decisions |-> <<"-", " ", "N", "o", " ", "c", "o", "n", "c", "r", "e", "t", "e", " ",
               "d", "e", "c", "i", "s", "i", "o", "n", "s", " ", "r", "e", "c", "o", "r", "d",
               "e", "d", ".">>,
         no_actions |-> <<"-", " ", "N", "o", " ", "t", "r", "a", "c", "k", "e", "d", " ", "a",
               "c", "t", "i", "o", "n", " ", "i", "t", "e", "m", "s", ".">>,
         no_risks |-> <<"-", " ", "N", "o", " ", "m", "a", "j", "o", "r", " ", "r", "i", "s",
               "k", "s", " ", "r", "e", "c", "o", "r", "d", "e", "d", ".">>,
         no_ai_filters |-> <<"-", " ", "N", "o", " ", "A", "I", " ", "f", "i", "l", "t", "e",
               "r", " ", "m", "e", "t", "a", "d", "a", "t", "a", ".">>,
         no_topic_tracker |-> <<"-", " ", "N", "o", " ", "t", "o", "p", "i", "c", "-", "t", "r",
               "a", "c", "k", "e", "r", " ", "d", "a", "t", "a", " ", "y", "e", "t", ".">>,
         no_concepts |-> <<"-", " ", "N", "o", " ", "c", "o", "n", "c", "e", "p", "t", " ", "d",
               "a", "t", "a", " ", "a", "v", "a", "i", "l", "a", "b", "l", "e", ".">>,
         formulas_header |-> <<"#", "#", " ", "I", "m", "p", "o", "r", "t", "a", "n", "t", " ",
               "f", "o", "r", "m", "u", "l", "a", "s">>,
         no_formulas |-> <<"-", " ", "N", "o", " ", "f", "o", "r", "m", "u", "l", "a", " ", "d",
               "a", "t", "a", " ", "a", "v", "a", "i", "l", "a", "b", "l", "e", ".">>,
         no_question |-> <<"N", "o", " ", "q", "u", "e", "s", "t", "i", "o", "n", " ", "t", "e",
               "x", "t">>,
         answer |-> <<" ", " ", " ", "-", " ", "*", "*", "A", "n", "s", "w", "e", "r", ":", "*",
               "*", " ">>,
         no_quiz |-> <<"-", " ", "N", "o", " ", "q", "u", "i", "z", " ", "d", "a", "t", "a", " ",
               "a", "v", "a", "i", "l", "a", "b", "l", "e", ".">>,
         no_next_steps |-> <<"-", " ", "N", "e", "x", "t", " ", "s", "t", "e", "p", "s", " ",
               "a", "r", "e", " ", "n", "o", "t", " ", "s", "p", "e", "c", "i", "f", "i", "e",
               "d", " ", "y", "e", "t", ".">>]]

\* the texts format_minutes writes whatever the output language is
RenderHeaders ==
    [title |-> <<"#", " ", "B", "i", "U+00EA", "n", " ", "b", "U+1EA3", "n", ":", " ">>,
     info |-> <<"#", "#", " ", "T", "h", "U+00F4", "n", "g", " ", "t", "i", "n", " ", "c", "u",
           "U+1ED9", "c", " ", "h", "U+1ECD", "p">>,
     meeting_type |-> <<"-", " ", "*", "*", "L", "o", "U+1EA1", "i", " ", "c", "u", "U+1ED9",
           "c", " ", "h", "U+1ECD", "p", ":", "*", "*", " ">>,
     session_mode |-> <<"-", " ", "*", "*", "C", "h", "U+1EBF", " ", "U+0111", "U+1ED9", " ",
           "p", "h", "i", "U+00EA", "n", ":", "*", "*", " ">>,
     time |-> <<"-", " ", "*", "*", "T", "h", "U+1EDD", "i", " ", "g", "i", "a", "n", ":", "*",
           "*", " ">>,
     summary |-> <<"#", "#", " ", "T", "U+00F3", "m", " ", "t", "U+1EAF", "t", " ", "U+0111",
           "i", "U+1EC1", "u", " ", "h", "U+00E0", "n", "h">>,
     key_points |-> <<"#", "#", " ", "C", "U+00E1", "c", " ", "U+0111", "i", "U+1EC3", "m", " ",
           "c", "h", "U+00ED", "n", "h">>,
     decisions |-> <<"#", "#", " ", "Q", "u", "y", "U+1EBF", "t", " ", "U+0111", "U+1ECB", "n",
           "h">>,
     decisions_columns |-> <<"|", " ", "Q", "u", "y", "U+1EBF", "t", " ", "U+0111", "U+1ECB",
           "n", "h", " ", "|", " ", "L", "U+00FD", " ", "d", "o", " ", "|", " ", "T", "r",
           "U+1EA1", "n", "g", " ", "t", "h", "U+00E1", "i", " ", "|", " ", "N", "g", "U+01B0",
           "U+1EDD", "i", " ", "x", "U+00E1", "c", " ", "n", "h", "U+1EAD", "n", " ", "|">>,
     actions |-> <<"#", "#", " ", "H", "U+00E0", "n", "h", " ", "U+0111", "U+1ED9", "n", "g",
           " ", "c", "U+1EA7", "n", " ", "t", "h", "U+1EF1", "c", " ", "h", "i", "U+1EC7", "n">>,
     actions_columns |-> <<"|", " ", "N", "g", "U+01B0", "U+1EDD", "i", " ", "p", "h", "U+1EE5",
           " ", "t", "r", "U+00E1", "c", "h", " ", "|", " ", "H", "U+1EA1", "n", " ", "c", "h",
           "U+00F3", "t", " ", "|", " ", "M", "U+1EE9", "c", " ", "U+01B0", "u", " ", "t", "i",
           "U+00EA", "n", " ", "|", " ", "T", "r", "U+1EA1", "n", "g", " ", "t", "h", "U+00E1",
           "i", " ", "|", " ", "H", "U+00E0", "n", "h", " ", "U+0111", "U+1ED9", "n", "g", " ",
           "|">>,
     risks |-> <<"#", "#", " ", "R", "U+1EE7", "i", " ", "r", "o", " ", "v", "U+00E0", " ", "t",
           "r", "U+1EDF", " ", "n", "g", "U+1EA1", "i">>,
     risks_columns |-> <<"|", " ", "R", "U+1EE7", "i", " ", "r", "o", " ", "|", " ", "M",
           "U+1EE9", "c", " ", "U+0111", "U+1ED9", " ", "|", " ", "G", "i", "U+1EA3", "m", " ",
           "t", "h", "i", "U+1EC3", "u", " ", "|", " ", "N", "g", "U+01B0", "U+1EDD", "i", " ",
           "p", "h", "U+1EE5", " ", "t", "r", "U+00E1", "c", "h", " ", "|", " ", "T", "r",
           "U+1EA1", "n", "g", " ", "t", "h", "U+00E1", "i", " ", "|">>,
     ai_filters |-> <<"#", "#", " ", "B", "U+1ED9", " ", "l", "U+1ECD", "c", " ", "A", "I", " ",
           "(", "t", "h", "a", "m", " ", "c", "h", "i", "U+1EBF", "u", ")">>,
     topic_tracker |-> <<"#", "#", " ", "T", "h", "e", "o", " ", "d", "U+00F5", "i", " ", "c",
           "h", "U+1EE7", " ", "U+0111", "U+1EC1">>,
     topic_columns |-> <<"|", " ", "C", "h", "U+1EE7", " ", "U+0111", "U+1EC1", " ", "|", " ",
           "B", "U+1EAF", "t", " ", "U+0111", "U+1EA7", "u", " ", "|", " ", "K", "U+1EBF", "t",
           " ", "t", "h", "U+00FA", "c", " ", "|", " ", "T", "h", "U+1EDD", "i", " ", "l",
           "U+01B0", "U+1EE3", "n", "g", " ", "(", "g", "i", "U+00E2", "y", ")", " ", "|">>,
     knowledge |-> <<"#", "#", " ", "B", "U+1EA3", "n", "g", " ", "k", "i", "U+1EBF", "n", " ",
           "t", "h", "U+1EE9", "c", " ", "t", "r", "U+1ECD", "n", "g", " ", "t", "U+00E2", "m">>,
     concept_columns |-> <<"|", " ", "K", "h", "U+00E1", "i", " ", "n", "i", "U+1EC7", "m", " ",
           "|", " ", "G", "i", "U+1EA3", "i", " ", "t", "h", "U+00ED", "c", "h", " ", "|">>,
     formula_columns |-> <<"|", " ", "T", "U+00EA", "n", " ", "c", "U+00F4", "n", "g", " ", "t",
           "h", "U+1EE9", "c", " ", "|", " ", "B", "i", "U+1EC3", "u", " ", "t", "h", "U+1EE9",
           "c", " ", "|", " ", "U+00DD", " ", "n", "g", "h", "U+0129", "a", " ", "|">>,
     quiz |-> <<"#", "#", " ", "C", "U+00E2", "u", " ", "h", "U+1ECF", "i", " ", "U+00F4", "n",
           " ", "t", "U+1EAD", "p">>,
     next_steps |-> <<"#", "#", " ", "B", "U+01B0", "U+1EDB", "c", " ", "t", "i", "U+1EBF", "p",
           " ", "t", "h", "e", "o">>]

\* str(n) for a natural number
RECURSIVE DecimalText(_)
DecimalText(n) ==
    IF n < 10 THEN <<DigitSeq[n + 1]>>
    ELSE DecimalText(n \div 10) \o <<DigitSeq[(n % 10) + 1]>>

\* f"{n:02d}"
TwoDigits(n) == IF n < 10 THEN <<"0">> \o DecimalText(n) ELSE DecimalText(n)

\* a time that is None
NoTime == -1

\* _fmt_seconds on whole seconds
fmt_seconds(value) ==
    IF value = NoTime THEN <<>>
    ELSE TwoDigits(value \div 60) \o <<":">> \o TwoDigits(value % 60)

\* str(value or "") for a float of whole seconds
SecondsText(value) ==
    IF value = NoTime \/ value = 0 THEN <<>> ELSE DecimalText(value) \o <<".", "0">>

\* _fmt_dt on a text; the empty text stands for None
fmt_dt(value) == IF value = <<>> THEN <<"N", "/", "A">> ELSE value

\* str.title() on a text of ASCII letters and other characters
Title(s) ==
    [i \in 1..Len(s) |->
        IF s[i] \in AsciiLetters
        THEN IF i > 1 /\ s[i - 1] \in AsciiLetters
             THEN LowerChar(s[i])
             ELSE UpperSeq[CHOOSE k \in 1..26 : LowerSeq[k] = LowerChar(s[i])]
        ELSE s[i]]

\* _md_cell on the text of a value: pipes get a backslash, newlines become
\* spaces, the ends are stripped, and an empty cell is a dash
md_cell_text(text_val) ==
    With(Strip(Flat([i \in 1..Len(text_val) |->
                        IF text_val[i] = "|" THEN <<BSL, "|">>
                        ELSE IF text_val[i] = NL THEN <<" ">>
                        ELSE <<text_val[i]>>], 1, Len(text_val))), LAMBDA cell :
        IF cell = <<>> THEN <<"-">> ELSE cell)

\* str(row.get(k1) or row.get(k2) or ""), the empty text for a falsy value
OrText(row, keys) ==
    With({k \in 1..Len(keys) : Truthy(DictGet(row, keys[k]))}, LAMBDA hit :
        IF hit = {} THEN <<>> ELSE PyStr(DictGet(row, keys[Min(hit)])))

\* _md_cell(row.get(k1) or row.get(k2))
md_cell(row, keys) == md_cell_text(OrText(row, keys))

\* "| " + " | ".join(cells) + " |"
TableRow(cells) == <<"|", " ">> \o JoinWith(cells, <<" ", "|", " ">>) \o <<" ", "|">>

\* the separator line under the column names
TableRule(columns) ==
    TableRow([k \in 1..columns |-> <<"-", "-", "-">>])

\* f"- {item}" for every item
Bulleted(items) == [i \in 1..Len(items) |-> <<"-", " ">> \o items[i]]

\* f"{idx}. {item}" for every item, counted from 1
Numbered(items) == [i \in 1..Len(items) |-> DecimalText(i) \o <<".", " ">> \o items[i]]


\* one heading, its content lines and the empty line that closes the section
Section(header, content) == <<header>> \o content \o << <<>> >>

\* a table: column names, rule, and one row per item
Table(columns, width, rows) == <<columns, TableRule(width)>> \o rows

\* the lines of the decisions, actions and risks sections and of the AI
\* filters, written for a meeting only
MeetingSections(a, texts) ==
    IF a.session_type # <<"m", "e", "e", "t", "i", "n", "g">> THEN <<>>
    ELSE
      Section(RenderHeaders.decisions,
          IF a.decision_rows # <<>>
          THEN Table(RenderHeaders.decisions_columns, 4,
                   [i \in 1..Len(a.decision_rows) |->
                       TableRow(<<md_cell(a.decision_rows[i], <<<<"d", "e", "s", "c", "r", "i",
                             "p", "t", "i", "o", "n">>>>),
                                  md_cell(a.decision_rows[i], <<<<"r", "a", "t", "i", "o", "n",
                                        "a", "l", "e">>>>),
                                  md_cell(a.decision_rows[i], <<<<"s", "t", "a", "t", "u",
                                        "s">>>>),
                                  md_cell(a.decision_rows[i], <<<<"c", "o", "n", "f", "i", "r",
                                        "m", "e", "d", "_", "b", "y">>>>)>>)])
          ELSE IF a.decisions # <<>> THEN Numbered(a.decisions)
          ELSE <<texts.no_decisions>>)
      \o
      Section(RenderHeaders.actions,
          IF a.action_rows # <<>>
          THEN Table(RenderHeaders.actions_columns, 5,
                   [i \in 1..Len(a.action_rows) |->
                       TableRow(<<md_cell(a.action_rows[i], <<<<"o", "w", "n", "e", "r">>>>),
                                  md_cell(a.action_rows[i], <<<<"d", "e", "a", "d", "l", "i",
                                        "n", "e">>>>),
                                  md_cell(a.action_rows[i], <<<<"p", "r", "i", "o", "r", "i",
                                        "t", "y">>>>),
                                  md_cell(a.action_rows[i], <<<<"s", "t", "a", "t", "u", "s">>>>),
                                  md_cell(a.action_rows[i], <<<<"d", "e", "s", "c", "r", "i",
                                        "p", "t", "i", "o", "n">>>>)>>)])
          ELSE IF a.actions # <<>> THEN Numbered(a.actions)
          ELSE <<texts.no_actions>>)
      \o
      Section(RenderHeaders.risks,
          IF a.risk_rows # <<>>
          THEN Table(RenderHeaders.risks_columns, 5,
                   [i \in 1..Len(a.risk_rows) |->
                       TableRow(<<md_cell(a.risk_rows[i], <<<<"d", "e", "s", "c", "r", "i", "p",
                             "t", "i", "o", "n">>>>),
                                  md_cell(a.risk_rows[i], <<<<"s", "e", "v", "e", "r", "i", "t",
                                        "y">>>>),
                                  md_cell(a.risk_rows[i], <<<<"m", "i", "t", "i", "g", "a", "t",
                                        "i", "o", "n">>>>),
                                  md_cell(a.risk_rows[i], <<<<"o", "w", "n", "e", "r">>>>),
                                  md_cell(a.risk_rows[i], <<<<"s", "t", "a", "t", "u",
                                        "s">>>>)>>)])
          ELSE IF a.risks # <<>> THEN Bulleted(a.risks)
          ELSE <<texts.no_risks>>)
      \o
      (IF a.include_ai_filters
       THEN Section(RenderHeaders.ai_filters,
                IF a.ai_filters # <<>> THEN Bulleted(a.ai_filters)
                ELSE <<texts.no_ai_filters>>)
       ELSE <<>>)

\* the lines of the topic tracker, written when the request includes it
TopicTrackerSection(a, texts) ==
    IF ~a.include_topic_tracker THEN <<>>
    ELSE Section(RenderHeaders.topic_tracker,
             IF a.topic_tracker # <<>>
             THEN Table(RenderHeaders.topic_columns, 4,
                      [i \in 1..Len(a.topic_tracker) |->
                          TableRow(<<md_cell_text(a.topic_tracker[i].title),
                                     md_cell_text(fmt_seconds(a.topic_tracker[i].start_time)),
                                     md_cell_text(fmt_seconds(a.topic_tracker[i].end_time)),
                                     md_cell_text(SecondsText(a.topic_tracker[i].duration_seconds))>>)])
             ELSE <<texts.no_topic_tracker>>)

\* [item for item in _safe_json_list(study_pack.get(key)) if item]
PackItems(study_pack, key) ==
    With(safe_json_list(DictGet(study_pack, key)), LAMBDA items :
        SelectSeq(items, Truthy))

\* the lines one quiz item contributes
QuizItem(idx, item, texts) ==
    << DecimalText(idx) \o <<".", " ">> \o
         (IF Strip(OrText(item, <<<<"q", "u", "e", "s", "t", "i", "o", "n">>>>)) # <<>>
          THEN Strip(OrText(item, <<<<"q", "u", "e", "s", "t", "i", "o", "n">>>>))
          ELSE texts.no_question) >>
    \o (IF DictGet(item, <<"o", "p", "t", "i", "o", "n", "s">>).t = "list"
        THEN [k \in 1..Len(DictGet(item, <<"o", "p", "t", "i", "o", "n", "s">>).kids) |->
                 <<" ", " ", " ", "-", " ">> \o Strip(PyStr(DictGet(item, <<"o", "p", "t", "i",
                       "o", "n", "s">>).kids[k].v))]
        ELSE <<>>)
    \o (IF Strip(OrText(item, <<<<"a", "n", "s", "w", "e", "r">>, <<"c", "o", "r", "r", "e", "c",
          "t", "_", "a", "n", "s", "w", "e", "r">>>>)) # <<>>
        THEN <<texts.answer \o Strip(OrText(item, <<<<"a", "n", "s", "w", "e", "r">>, <<"c", "o",
              "r", "r", "e", "c", "t", "_", "a", "n", "s", "w", "e", "r">>>>))>>
        ELSE <<>>)

\* the lines of the knowledge table, the formulas and the quiz of a course
StudyPackSections(a, texts) ==
    IF ~(a.session_type = <<"c", "o", "u", "r", "s", "e">> /\ Truthy(a.study_pack)) THEN <<>>
    ELSE
      (IF a.include_knowledge_table
       THEN Section(RenderHeaders.knowledge,
                With(PackItems(a.study_pack, <<"c", "o", "n", "c", "e", "p", "t", "s">>),
                      LAMBDA concepts :
                    IF concepts # <<>>
                    THEN Table(RenderHeaders.concept_columns, 2,
                             [i \in 1..Len(concepts) |->
                                 TableRow(<<md_cell(concepts[i], <<<<"c", "o", "n", "c", "e",
                                       "p", "t">>, <<"n", "a", "m", "e">>>>),
                                            md_cell(concepts[i], <<<<"e", "x", "p", "l", "a",
                                                  "n", "a", "t", "i", "o", "n">>, <<"d", "e",
                                                  "s", "c", "r", "i", "p", "t", "i", "o",
                                                  "n">>>>)>>)])
                    ELSE <<texts.no_concepts>>))
            \o
            Section(texts.formulas_header,
                With(PackItems(a.study_pack, <<"f", "o", "r", "m", "u", "l", "a", "s">>),
                      LAMBDA formulas :
                    IF formulas # <<>>
                    THEN Table(RenderHeaders.formula_columns, 3,
                             [i \in 1..Len(formulas) |->
                                 TableRow(<<md_cell(formulas[i], <<<<"n", "a", "m", "e">>, <<"t",
                                       "i", "t", "l", "e">>>>),
                                            md_cell(formulas[i], <<<<"f", "o", "r", "m", "u",
                                                  "l", "a">>, <<"e", "x", "p", "r", "e", "s",
                                                  "s", "i", "o", "n">>>>),
                                            md_cell(formulas[i], <<<<"m", "e", "a", "n", "i",
                                                  "n", "g">>, <<"u", "s", "a", "g", "e">>, <<"d",
                                                  "e", "s", "c", "r", "i", "p", "t", "i", "o",
                                                  "n">>>>)>>)])
                    ELSE <<texts.no_formulas>>))
       ELSE <<>>)
      \o
      (IF a.include_quiz
       THEN Section(RenderHeaders.quiz,
                With(PackItems(a.study_pack, <<"q", "u", "i", "z">>), LAMBDA quiz :
                    IF quiz # <<>>
                    THEN Flat([i \in 1..Len(quiz) |-> QuizItem(i, quiz[i], texts)], 1, Len(quiz))
                    ELSE <<texts.no_quiz>>))
       ELSE <<>>)

\* the lines format_minutes appends, in order
MinutesLines(a, texts) ==
    <<RenderHeaders.title \o a.meeting_title, <<>>>>
    \o Section(RenderHeaders.info,
           <<RenderHeaders.meeting_type \o (IF a.meeting_type = <<>> THEN <<"N", "/",
                 "A">> ELSE a.meeting_type),
             RenderHeaders.session_mode \o Title(a.session_type),
             RenderHeaders.time \o fmt_dt(a.start_time) \o <<" ", "-",
                   " ">> \o fmt_dt(a.end_time)>>)
    \o Section(RenderHeaders.summary,
           IF Strip(a.summary) # <<>> THEN <<Strip(a.summary)>> ELSE <<texts.no_summary>>)
    \o Section(RenderHeaders.key_points,
           IF StrippedNonEmpty(a.key_points) # <<>>
           THEN Bulleted(StrippedNonEmpty(a.key_points)) ELSE <<texts.no_key_points>>)
    \o Section(texts.keywords_header,
           IF StrippedNonEmpty(a.keywords) # <<>>
           THEN Bulleted(StrippedNonEmpty(a.keywords)) ELSE <<texts.no_keywords>>)
    \o Section(texts.topics_header,
           IF StrippedNonEmpty(a.topics) # <<>>
           THEN Bulleted(StrippedNonEmpty(a.topics)) ELSE <<texts.no_topics>>)
    \o MeetingSections(a, texts)
    \o TopicTrackerSection(a, texts)
    \o StudyPackSections(a, texts)
    \o Section(RenderHeaders.next_steps,
           IF a.next_steps # <<>> THEN Numbered(a.next_steps) ELSE <<texts.no_next_steps>>)

\* format_minutes: the lines joined by newlines; format_type is not read
format_minutes(a, prefer_vi) ==
    JoinWith(MinutesLines(a, IF prefer_vi THEN RenderTexts.vi ELSE RenderTexts.en), <<NL>>)


----------------------------------------------------------------------------
(* format_minutes as a state machine: one call on the arguments of a run *)

\* cell values of the rows: plain, with a pipe, with a newline, with a
\* backslash before a pipe, with a carriage return, blank, and absent
CellValues ==
    {StrValue(<<"S", "h", "i", "p", " ", "v", "2">>), StrValue(<<"a", "|", "b">>),
          StrValue(<<"l", "i", "n", "e", "1">> \o <<NL>> \o <<"l", "i", "n", "e", "2">>),
     StrValue(<<"a">> \o <<BSL>> \o <<"|", "b">>), StrValue(<<"x">> \o <<CR>> \o <<"y">>),
     StrValue(<<" ">>), NoneValue}

\* the rows a caller hands over: none, one row, or a plain row and one more
RowCases ==
    {<<>>} \cup {<<c>> : c \in CellValues} \cup {<<StrValue(<<"P", "l", "a", "n", " ", "B">>),
          c>> : c \in {StrValue(<<"a", "|", "b">>)}}

\* one row dict whose first cell is the value and whose other cells are plain
RenderRow(value) ==
    DictValue(<<Entry(<<"d", "e", "s", "c", "r", "i", "p", "t", "i", "o", "n">>, value),
          Entry(<<"o", "w", "n", "e", "r">>, StrValue(<<"A", "n">>)),
                Entry(<<"s", "t", "a", "t", "u", "s">>, StrValue(<<"o", "p", "e", "n">>))>>)

\* a study pack with one concept, one formula and one quiz item on the value
StudyPack(value) ==
    DictValue(<<Entry(<<"c", "o", "n", "c", "e", "p", "t", "s">>,
          ListValue(<<DictValue(<<Entry(<<"c", "o", "n", "c", "e", "p", "t">>, value),
                                                          Entry(<<"e", "x", "p", "l", "a", "n",
                                                                "a", "t", "i", "o", "n">>,
                                                                StrValue(<<"e">>))>>)>>)),
                Entry(<<"f", "o", "r", "m", "u", "l", "a", "s">>,
                      ListValue(<<DictValue(<<Entry(<<"n", "a", "m", "e">>, StrValue(<<"n">>)),
                                                          Entry(<<"f", "o", "r", "m", "u", "l",
                                                                "a">>, value)>>)>>)),
                Entry(<<"q", "u", "i", "z">>, ListValue(<<DictValue(<<Entry(<<"q", "u", "e", "s",
                      "t", "i", "o", "n">>, value),
                                                      Entry(<<"o", "p", "t", "i", "o", "n",
                                                            "s">>,
                                                            ListValue(<<StrValue(<<"a">>)>>)),
                                                      Entry(<<"a", "n", "s", "w", "e", "r">>,
                                                            StrValue(<<"a">>))>>)>>))>>)

\* a topic segment titled by the value, from 0:05 to 1:35
TopicRow(value) ==
    [title |-> IF Truthy(value) THEN PyStr(value) ELSE <<>>,
     start_time |-> 5, end_time |-> 95, duration_seconds |-> 90]

SessionTypes == {<<"m", "e", "e", "t", "i", "n", "g">>, <<"c", "o", "u", "r", "s", "e">>}

\* the arguments of one call
RenderArguments(sessionType, cells, summary, topicTracker, aiFilters, quiz, knowledge) ==
    [meeting_title |-> <<"Q", "3">>, meeting_type |-> <<"w", "e", "e", "k", "l", "y">>,
          start_time |-> <<>>,
     end_time |-> <<>>, summary |-> summary,
     key_points |-> IF cells = <<>> THEN <<>> ELSE <<<<"A">>, <<"B">>>>,
     keywords |-> <<>>, topics |-> IF cells = <<>> THEN <<>> ELSE <<<<"t">>>>,
     session_type |-> sessionType,
     actions |-> <<>>, decisions |-> <<>>, risks |-> <<>>,
     action_rows |-> [i \in 1..Len(cells) |-> RenderRow(cells[i])],
     decision_rows |-> [i \in 1..Len(cells) |-> RenderRow(cells[i])],
     risk_rows |-> [i \in 1..Len(cells) |-> RenderRow(cells[i])],
     next_steps |-> IF cells = <<>> THEN <<>> ELSE <<<<"n", "1">>>>,
     study_pack |-> IF cells = <<>> THEN NoneValue ELSE StudyPack(cells[Len(cells)]),
     topic_tracker |-> [i \in 1..Len(cells) |-> TopicRow(cells[i])],
     ai_filters |-> <<>>,
     include_topic_tracker |-> topicTracker, include_ai_filters |-> aiFilters,
     include_quiz |-> quiz, include_knowledge_table |-> knowledge,
     format_type |-> <<"m", "a", "r", "k", "d", "o", "w", "n">>]

RenderInit ==
    /\ ParseIdle
    /\ PointsIdle
    /\ MinutesIdle
    /\ RowsIdle
    /\ LanguageIdle
    /\ RecoverIdle
    /\ ServicesIdle
    /\ pc = "start"
    /\ \E sessionType \in SessionTypes, cells \in RowCases, summary \in {<<>>, <<"W", "e", "n",
          "t", " ", "w", "e", "l", "l", ".">>},
          flags \in [topic_tracker : BOOLEAN, ai_filters : BOOLEAN, study : BOOLEAN],
          prefer_vi \in BOOLEAN :
          renderIn = [args |-> RenderArguments(sessionType, cells, summary,
                                  flags.topic_tracker, flags.ai_filters, flags.study,
                                        flags.study),
                      prefer_vi |-> prefer_vi]
    /\ renderOut = <<>>

FormatMinutes ==
    /\ pc = "start"
    /\ renderOut' = format_minutes(renderIn.args, renderIn.prefer_vi)
    /\ pc' = "done"
    /\ UNCHANGED <<renderIn, parseVars, pointsVars, minutesVars, rowsVars,
                   languageVars, recoverVars, serviceVars>>

RenderNext == FormatMinutes

SpecRender == RenderInit /\ [][RenderNext]_vars


----------------------------------------------------------------------------
(* the readers of the output language within one generation *)

\* gemini_client._output_language_name
assistant_output_language_name(setting) ==
    With(output_language_code(setting), LAMBDA code :
        IF code = <<"v", "i">> THEN <<"V", "i", "e", "t", "n", "a", "m", "e", "s", "e">>
        ELSE IF code = <<"e", "n">> THEN <<"E", "n", "g", "l", "i", "s", "h">>
        ELSE <<"V", "i", "e", "t", "n", "a", "m", "e", "s", "e">>)

\* minutes_service._output_language_name
service_output_language_name(setting) ==
    IF prefer_vietnamese_output(setting) THEN <<"V", "i", "e", "t", "n", "a", "m", "e", "s",
          "e">> ELSE <<"E", "n", "g", "l", "i", "s", "h">>

\* values of LLM_OUTPUT_LANGUAGE as written: the aliases, the empty value
\* and codes the selectors do not know
WrittenSettings ==
    ViAliases \cup EnAliases \cup {<<>>, <<"f", "r">>, <<"v", "i", "e", "t">>, <<"e", "n", "g",
          "l", "i", "s", "h", " ", "(", "u", "s", ")">>}

\* a written value in capital letters
Capitals(w) ==
    [i \in 1..Len(w) |->
        IF \E k \in 1..Len(LowerSeq) : LowerSeq[k] = w[i]
        THEN UpperSeq[CHOOSE k \in 1..Len(LowerSeq) : LowerSeq[k] = w[i]]
        ELSE w[i]]

\* each written value as it is, in capitals, and padded with blanks
SettingValues ==
    UNION {{w, Capitals(w), <<" ">> \o w \o <<" ", TAB>>} : w \in WrittenSettings}

\* what one generation has read so far
NothingSelected ==
    [language_name |-> <<>>, guard |-> "none", fallback |-> "none",
     service_name |-> <<>>, service_fallback |-> "none", placeholders |-> "none"]

LanguageInit ==
    /\ ParseIdle
    /\ PointsIdle
    /\ MinutesIdle
    /\ RowsIdle
    /\ RenderIdle
    /\ RecoverIdle
    /\ ServicesIdle
    /\ pc = "start"
    /\ llm_output_language \in SettingValues
    /\ selection = NothingSelected

\* generate_summary_with_context: the language name of the prompt, the
\* language guard and the language of the synthesized fallback
AssistantReadsLanguage ==
    /\ pc = "start"
    /\ selection' = [selection EXCEPT
                        !.language_name = assistant_output_language_name(llm_output_language),
                        !.guard = AssistantLang(llm_output_language),
                        !.fallback = AssistantLang(llm_output_language)]
    /\ pc' = "summarized"
    /\ UNCHANGED <<llm_output_language, parseVars, pointsVars, minutesVars, rowsVars,
                   renderVars, recoverVars, serviceVars>>

\* generate_minutes_with_ai: the language name and the fallback texts of
\* the service
ServiceReadsLanguage ==
    /\ pc = "summarized"
    /\ selection' = [selection EXCEPT
                        !.service_name = service_output_language_name(llm_output_language),
                        !.service_fallback = ServiceLang(llm_output_language)]
    /\ pc' = "render"
    /\ UNCHANGED <<llm_output_language, parseVars, pointsVars, minutesVars, rowsVars,
                   renderVars, recoverVars, serviceVars>>

\* format_minutes: the language of the placeholders
RendererReadsLanguage ==
    /\ pc = "render"
    /\ selection' = [selection EXCEPT
                        !.placeholders = IF prefer_vietnamese_output(llm_output_language)
                                         THEN "vi" ELSE "en"]
    /\ pc' = "done"
    /\ UNCHANGED <<llm_output_language, parseVars, pointsVars, minutesVars, rowsVars,
                   renderVars, recoverVars, serviceVars>>

LanguageNext ==
    \/ AssistantReadsLanguage
    \/ ServiceReadsLanguage
    \/ RendererReadsLanguage

SpecLanguage == LanguageInit /\ [][LanguageNext]_vars


----------------------------------------------------------------------------
(* _extract_summary_field_by_regex as a state machine: one call on a text
   that writes a summary field without braces around it *)

\* the summary key as a response writes it
WrittenSummaryKeys == {<<"s", "u", "m", "m", "a", "r", "y">>, <<"S", "u", "m", "m", "a", "r",
      "y">>, <<"S", "U", "M", "M", "A", "R", "Y">>}

\* quoted values without quotes or backslashes in them
SummaryValues ==
    {<<"X">>, <<"A", "l", "l", " ", "g", "o", "o", "d">>, <<"T", "e", "a", "m", " ", "a", "g",
          "r", "e", "e", "d", ",", " ", "n", "e", "x", "t", ":", " ", "s", "h", "i", "p">>,
          <<"a", "}", "b">>, <<"X", "i", "n", " ", "c", "h", "U+00E0", "o">>, <<"x", ":", " ",
          "y">>}

\* what follows the closing quote: nothing, a newline, a comma, a closing
\* brace, another field
FieldShapes == {"bare", "spaced", "line", "comma", "closed", "followed"}

\* the raw text of one input
WrittenField(key, value, shape) ==
    key \o (IF shape = "spaced" THEN <<" ", ":", " ">> ELSE <<":",
          " ">>) \o <<DQ>> \o value \o <<DQ>>
        \o (IF shape = "line" THEN <<NL>>
            ELSE IF shape = "comma" THEN <<",">>
            ELSE IF shape = "closed" THEN <<"}">>
            ELSE IF shape = "followed" THEN <<",", " ", "k", "e", "y", "_", "p", "o", "i", "n",
                  "t", "s", ":", " ", "[", "]">>
            ELSE <<>>)

RecoverInit ==
    /\ ParseIdle
    /\ PointsIdle
    /\ MinutesIdle
    /\ RowsIdle
    /\ RenderIdle
    /\ LanguageIdle
    /\ ServicesIdle
    /\ pc = "start"
    /\ recoverIn \in [key : WrittenSummaryKeys, value : SummaryValues, shape : FieldShapes]
    /\ recoverOut = NoneValue

RecoverSummary ==
    /\ pc = "start"
    /\ recoverOut' = StrValue(extract_summary_field_by_regex(
                                  WrittenField(recoverIn.key, recoverIn.value, recoverIn.shape)))
    /\ pc' = "done"
    /\ UNCHANGED <<recoverIn, parseVars, pointsVars, minutesVars, rowsVars, renderVars,
                   languageVars, serviceVars>>

RecoverNext == RecoverSummary

SpecRecover == RecoverInit /\ [][RecoverNext]_vars


----------------------------------------------------------------------------
(* text normalization applied to its own output *)

\* the cleaned text of _json_object_candidates: fences stripped, then
\* typographic quotes replaced
AssistantNormalize(rawText) == AsciiQuotes(strip_code_fences(rawText))

\* the cleaned text of _extract_embedded_summary_payload: trimmed,
\* typographic quotes replaced, then fences stripped
ServiceNormalize(rawText) == EmbeddedCleaned(Strip(rawText))

Normalize(by, rawText) ==
    IF by = "assistant" THEN AssistantNormalize(rawText) ELSE ServiceNormalize(rawText)

\* the texts a response wraps in fences
FencedBodies ==
    {<<"{", "\"", "a", "\"", ":", " ", "1", "}">>, <<"x">>, <<LDQUO>> \o <<"h",
          "i">> \o <<RDQUO>>, <<"i", "t">> \o <<RSQUO>> \o <<"s">>, <<>>, <<"j", "s", "o", "n">>}

\* how a response wraps a text: not at all, in one fence, in a fence inside
\* a fence, under two opening fences, under mixed tags
Wrappings == {"none", "json", "untagged", "padded", "nested", "repeated", "capital", "inline"}

Wrapped(style, text) ==
    CASE style = "nested" -> Wrap("untagged", Wrap("json", text))
      [] style = "repeated" -> Fence \o Fence \o <<NL>> \o text \o <<NL>> \o Fence
      [] style = "capital" -> Fence \o <<"J", "S", "O", "N", " ">> \o text \o Fence
      [] style = "inline" -> Fence \o text \o Fence
      [] OTHER -> Wrap(style, text)

\* how often the normalizer is applied to its own output
MaxPasses == 2

NormalizeInit ==
    /\ ParseIdle
    /\ PointsIdle
    /\ MinutesIdle
    /\ RowsIdle
    /\ RenderIdle
    /\ LanguageIdle
    /\ RecoverIdle
    /\ EmbeddedIdle
    /\ StoreIdle
    /\ LoginIdle
    /\ windowing = NoneValue
    /\ deletion = NoneValue
    /\ pc = "start"
    /\ \E by \in {"assistant", "service"}, style \in Wrappings, text \in FencedBodies :
            normIn = [by |-> by, text |-> Wrapped(style, text)]
    /\ normOut = <<>>

\* one application: to the raw text first, to the last output after that
ApplyNormalizer ==
    /\ pc = "start"
    /\ Len(normOut) < MaxPasses
    /\ normOut' = Append(normOut,
                         Normalize(normIn.by,
                                   IF normOut = <<>> THEN normIn.text
                                   ELSE normOut[Len(normOut)]))
    /\ UNCHANGED <<pc, normIn, parseVars, pointsVars, minutesVars, rowsVars, renderVars,
                   languageVars, recoverVars, embeddedVars, storeVars, loginVars,
                   windowing, deletion>>

NormalizeNext == ApplyNormalizer

SpecNormalize == NormalizeInit /\ [][NormalizeNext]_vars


----------------------------------------------------------------------------
(* the two extractors of a summary payload on one text *)

\* _parse_json_object_relaxed followed by _extract_summary_and_points_from_payload
RelaxedParsePayload(rawText) ==
    With(parse_json_object_relaxed(rawText), LAMBDA result :
        IF NonEmptyObject(result)
        THEN extract_summary_and_points_from_payload(result)
        ELSE << <<>>, <<>> >>)

\* payloads a response is written to mean
PayloadObjects ==
    {o \in IntendedObjects : DictGet(o, <<"s", "u", "m", "m", "a", "r", "y">>) # NoneValue}
    \cup {DictValue(<<Entry(<<"k", "e", "y", "_", "p", "o", "i", "n", "t", "s">>,
          ListValue(<<StrValue(<<"A">>), StrValue(<<"B">>)>>))>>)}

\* every way of writing: strict JSON and each mix of trailing commas,
\* unquoted keys and single quotes
WritingStyles == [trailing : BOOLEAN, bare : BOOLEAN, single : BOOLEAN]

EmbeddedInit ==
    /\ ParseIdle
    /\ PointsIdle
    /\ MinutesIdle
    /\ RowsIdle
    /\ RenderIdle
    /\ LanguageIdle
    /\ RecoverIdle
    /\ NormalizeIdle
    /\ StoreIdle
    /\ LoginIdle
    /\ windowing = NoneValue
    /\ deletion = NoneValue
    /\ pc = "start"
    /\ \E o \in PayloadObjects, st \in WritingStyles, style \in FenceStyles :
            embeddedIn = Wrap(style, WriteRelaxed(o, st))
    /\ embeddedOut = NoneValue

\* both extractors are run on the text
ExtractPayloads ==
    /\ pc = "start"
    /\ embeddedOut' = [assistant |-> RelaxedParsePayload(embeddedIn),
                       service |-> extract_embedded_summary_payload(embeddedIn)]
    /\ pc' = "done"
    /\ UNCHANGED <<embeddedIn, parseVars, pointsVars, minutesVars, rowsVars, renderVars,
                   languageVars, recoverVars, normalizeVars, storeVars, loginVars,
                   windowing, deletion>>

EmbeddedNext == ExtractPayloads

SpecEmbedded == EmbeddedInit /\ [][EmbeddedNext]_vars


----------------------------------------------------------------------------
(* minutes_service.py: create_minutes, update_minutes, approve_minutes and
   get_latest_minutes on table meeting_minutes, one database session per
   caller *)

\* the callers, each with a database session of its own
Sessions == {"s1", "s2"}

\* the meetings minutes are stored for
MeetingIds == {"m1", "m2"}

\* the rows table meeting_minutes can hold in a behaviour
MaxRows == 3

\* the constraints of table meeting_minutes as _ensure_minutes_tables
\* creates it: a primary key on id, nothing on (meeting_id, version)
TableConstraints == {"PRIMARY KEY (id)"}

\* a session that runs no call
NoCall == [pc |-> "idle", op |-> "none", meeting_id |-> "none", version |-> 0,
           minutes_id |-> 0, returned |-> NoneValue]

\* the rows of a meeting
RowsOf(table, meetingId) == SelectSeq(table, LAMBDA row : row.meeting_id = meetingId)

\* SELECT COALESCE(MAX(version), 0) + 1 FROM meeting_minutes WHERE meeting_id
next_version(table, meetingId) ==
    With({RowsOf(table, meetingId)[i].version : i \in 1..Len(RowsOf(table, meetingId))},
         LAMBDA versions : IF versions = {} THEN 1 ELSE Max(versions) + 1)

\* get_latest_minutes: the row of the meeting with the highest version, the
\* first one found when several rows have it; None without rows
get_latest_minutes(table, meetingId) ==
    With(RowsOf(table, meetingId), LAMBDA rows :
        IF rows = <<>> THEN NoneValue
        ELSE rows[Min({i \in 1..Len(rows) :
                          \A j \in 1..Len(rows) : rows[j].version <= rows[i].version})])

\* the index of the row with the id, 0 when there is none
RowWithId(table, minutesId) ==
    IF \E i \in 1..Len(table) : table[i].id = minutesId
    THEN CHOOSE i \in 1..Len(table) : table[i].id = minutesId
    ELSE 0

\* calls that are going to insert a row
PendingInserts == Cardinality({s \in Sessions : sessions[s].pc = "insert"})

StoreInit ==
    /\ ParseIdle
    /\ PointsIdle
    /\ MinutesIdle
    /\ RowsIdle
    /\ RenderIdle
    /\ LanguageIdle
    /\ RecoverIdle
    /\ NormalizeIdle
    /\ EmbeddedIdle
    /\ LoginIdle
    /\ windowing = NoneValue
    /\ deletion = NoneValue
    /\ pc = "serving"
    /\ meeting_minutes = <<>>
    /\ sessions = [s \in Sessions |-> NoCall]

StoreUnchanged ==
    UNCHANGED <<pc, parseVars, pointsVars, minutesVars, rowsVars, renderVars, languageVars,
                recoverVars, normalizeVars, embeddedVars, loginVars, windowing, deletion>>

\* create_minutes, first statement: the next version is read
CreateReadsVersion(s, meetingId) ==
    /\ sessions[s].pc = "idle"
    /\ Len(meeting_minutes) + PendingInserts < MaxRows
    /\ sessions' = [sessions EXCEPT ![s] =
                        [NoCall EXCEPT !.pc = "insert", !.op = "create",
                                       !.meeting_id = meetingId,
                                       !.version = next_version(meeting_minutes, meetingId)]]
    /\ UNCHANGED meeting_minutes
    /\ StoreUnchanged

\* create_minutes, second statement and commit: the row is inserted with
\* the version read before and a fresh id; the call returns it
CreateInsertsRow(s) ==
    /\ sessions[s].pc = "insert"
    /\ \E row \in {[id |-> Len(meeting_minutes) + 1, meeting_id |-> sessions[s].meeting_id,
                    version |-> sessions[s].version, status |-> "draft", edited |-> FALSE]} :
          IF /\ "UNIQUE (meeting_id, version)" \in TableConstraints
             /\ \E i \in 1..Len(meeting_minutes) :
                    /\ meeting_minutes[i].meeting_id = row.meeting_id
                    /\ meeting_minutes[i].version = row.version
          THEN /\ sessions' = [sessions EXCEPT ![s].pc = "raised"]
               /\ UNCHANGED meeting_minutes
          ELSE /\ meeting_minutes' = Append(meeting_minutes, row)
               /\ sessions' = [sessions EXCEPT ![s].pc = "returned", ![s].returned = row,
                                               ![s].minutes_id = row.id]
    /\ StoreUnchanged

\* update_minutes up to its commit: UPDATE ... WHERE id = :minutes_id
\* RETURNING id, meeting_id; None is returned when no row has the id
UpdateMinutesRow(s, minutesId) ==
    /\ sessions[s].pc = "idle"
    /\ \E i \in {RowWithId(meeting_minutes, minutesId)} :
          IF i = 0
          THEN /\ sessions' = [sessions EXCEPT ![s] =
                                  [NoCall EXCEPT !.pc = "returned", !.op = "update",
                                                 !.minutes_id = minutesId]]
               /\ UNCHANGED meeting_minutes
          ELSE /\ meeting_minutes' = [meeting_minutes EXCEPT ![i].edited = TRUE]
               /\ sessions' = [sessions EXCEPT ![s] =
                                  [NoCall EXCEPT !.pc = "latest", !.op = "update",
                                                 !.minutes_id = minutesId,
                                                 !.meeting_id = meeting_minutes[i].meeting_id]]
    /\ StoreUnchanged

\* approve_minutes up to its commit: UPDATE ... SET status = 'approved'
ApproveMinutesRow(s, minutesId) ==
    /\ sessions[s].pc = "idle"
    /\ \E i \in {RowWithId(meeting_minutes, minutesId)} :
          IF i = 0
          THEN /\ sessions' = [sessions EXCEPT ![s] =
                                  [NoCall EXCEPT !.pc = "returned", !.op = "approve",
                                                 !.minutes_id = minutesId]]
               /\ UNCHANGED meeting_minutes
          ELSE /\ meeting_minutes' = [meeting_minutes EXCEPT ![i].status = "approved"]
               /\ sessions' = [sessions EXCEPT ![s] =
                                  [NoCall EXCEPT !.pc = "latest", !.op = "approve",
                                                 !.minutes_id = minutesId,
                                                 !.meeting_id = meeting_minutes[i].meeting_id]]
    /\ StoreUnchanged

\* the last statement of update_minutes and approve_minutes:
\* return get_latest_minutes(db, row[1])
ReturnsLatest(s) ==
    /\ sessions[s].pc = "latest"
    /\ sessions' = [sessions EXCEPT ![s].pc = "returned",
                                    ![s].returned = get_latest_minutes(meeting_minutes,
                                                                       sessions[s].meeting_id)]
    /\ UNCHANGED meeting_minutes
    /\ StoreUnchanged

\* the caller has its result and is free for the next call
CallEnds(s) ==
    /\ sessions[s].pc \in {"returned", "raised"}
    /\ sessions' = [sessions EXCEPT ![s] = NoCall]
    /\ UNCHANGED meeting_minutes
    /\ StoreUnchanged

StoreNext ==
    \E s \in Sessions :
        \/ \E meetingId \in MeetingIds : CreateReadsVersion(s, meetingId)
        \/ CreateInsertsRow(s)
        \/ \E minutesId \in 1..(MaxRows + 1) : UpdateMinutesRow(s, minutesId)
        \/ \E minutesId \in 1..(MaxRows + 1) : ApproveMinutesRow(s, minutesId)
        \/ ReturnsLatest(s)
        \/ CallEnds(s)

SpecStore == StoreInit /\ [][StoreNext]_vars


----------------------------------------------------------------------------
(* auth_service.py: the login throttle of authenticate_user, kept in the
   dictionaries _failed_attempts and _blocked_until of the process *)

LOGIN_WINDOW_SECONDS == 600

LOGIN_BLOCK_SECONDS == 300

MAX_FAILED_ATTEMPTS == 5

\* the threads that run authenticate_user
Callers == {"c1", "c2"}

\* throttle keys: normalized email, "|", client address
Keys == {"an@lpbank.vn|10.0.0.7", "binh@lpbank.vn|10.0.0.7"}

\* what a caller presents: the right password, a wrong one, an email
\* without a user, the right password of a deactivated user
Attempts == {"right", "wrong", "missing", "inactive"}

\* the seconds between two readings of the wall clock
ClockStep == 150

\* the readings a behaviour goes through
MaxTicks == 5

\* the calls of authenticate_user in a behaviour
MaxCalls == 6

NoLogin == [pc |-> "idle", key |-> "none", attempt |-> "none", status |-> 0]

\* _prune_attempts on _failed_attempts: timestamps older than the window
\* go, and so do keys left without timestamps
PrunedAttempts(attempts, now) ==
    [k \in {k \in DOMAIN attempts :
                SelectSeq(attempts[k], LAMBDA ts : ts >= now - LOGIN_WINDOW_SECONDS) # <<>>} |->
        SelectSeq(attempts[k], LAMBDA ts : ts >= now - LOGIN_WINDOW_SECONDS)]

\* _prune_attempts on _blocked_until: blocks that have ended go
PrunedBlocks(blocks, now) ==
    [k \in {k \in DOMAIN blocks : ~(blocks[k] <= now)} |-> blocks[k]]

\* a test that lets every caller through
IsNeverBlocked(blocks, key, now) ==
    /\ key \in DOMAIN blocks
    /\ blocks[key] # 0
    /\ blocks[key] > now + LOGIN_BLOCK_SECONDS

\* the test of _check_rate_limit: blocked_at and blocked_at > now_ts
IsBlocked(blocks, key, now) ==
    /\ key \in DOMAIN blocks
    /\ blocks[key] # 0
    /\ blocks[key] > now

\* _failed_attempts.setdefault(key, []) followed by append(now_ts)
WithAttempt(attempts, key, now) ==
    [k \in DOMAIN attempts \cup {key} |->
        IF k = key
        THEN Append(IF key \in DOMAIN attempts THEN attempts[key] ELSE <<>>, now)
        ELSE attempts[k]]

\* _blocked_until after _record_failed_attempt appended to the attempts
WithBlock(blocks, attempts, key, now) ==
    IF Len(attempts[key]) >= MAX_FAILED_ATTEMPTS
    THEN [k \in DOMAIN blocks \cup {key} |->
            IF k = key THEN now + LOGIN_BLOCK_SECONDS ELSE blocks[k]]
    ELSE blocks

\* dict.pop(key, None)
Popped(dict, key) == [k \in DOMAIN dict \ {key} |-> dict[k]]

LoginInit ==
    /\ ParseIdle
    /\ PointsIdle
    /\ MinutesIdle
    /\ RowsIdle
    /\ RenderIdle
    /\ LanguageIdle
    /\ RecoverIdle
    /\ NormalizeIdle
    /\ EmbeddedIdle
    /\ StoreIdle
    /\ windowing = NoneValue
    /\ deletion = NoneValue
    /\ pc = "serving"
    /\ failed_attempts = <<>>
    /\ blocked_until = <<>>
    /\ clock = 0
    /\ logins = [started |-> 0,
                 calls |-> [c \in Callers |-> NoLogin],
                 recorded |-> [k \in Keys |-> <<>>]]

LoginUnchanged ==
    UNCHANGED <<pc, parseVars, pointsVars, minutesVars, rowsVars, renderVars, languageVars,
                recoverVars, normalizeVars, embeddedVars, storeVars, windowing, deletion>>

\* the call of the caller ends with the status
Ended(c, status) ==
    [logins EXCEPT !.calls[c].pc = "done", !.calls[c].status = status]

\* authenticate_user up to the end of _check_rate_limit: the dictionaries
\* are pruned, and a blocked key ends the call with 429
CheckRateLimit(c, key, attempt) ==
    /\ logins.calls[c].pc \in {"idle", "done"}
    /\ logins.started < MaxCalls
    /\ failed_attempts' = PrunedAttempts(failed_attempts, clock)
    /\ blocked_until' = PrunedBlocks(blocked_until, clock)
    /\ logins' = [logins EXCEPT
                    !.started = @ + 1,
                    !.calls[c] =
                        [pc |-> IF IsBlocked(PrunedBlocks(blocked_until, clock), key, clock)
                                THEN "done" ELSE "lookup",
                         key |-> key, attempt |-> attempt,
                         status |-> IF IsBlocked(PrunedBlocks(blocked_until, clock), key, clock)
                                    THEN 429 ELSE 0]]
    /\ UNCHANGED clock
    /\ LoginUnchanged

\* _fetch_user_by_email and the two tests after it: no user is a failed
\* attempt, a deactivated user ends the call with 403
FetchUser(c) ==
    /\ logins.calls[c].pc = "lookup"
    /\ logins' = IF logins.calls[c].attempt = "missing"
                 THEN [logins EXCEPT !.calls[c].pc = "record"]
                 ELSE IF logins.calls[c].attempt = "inactive"
                      THEN Ended(c, 403)
                      ELSE [logins EXCEPT !.calls[c].pc = "verify"]
    /\ UNCHANGED <<failed_attempts, blocked_until, clock>>
    /\ LoginUnchanged

\* verify_password
VerifyPassword(c) ==
    /\ logins.calls[c].pc = "verify"
    /\ logins' = [logins EXCEPT !.calls[c].pc =
                        IF logins.calls[c].attempt = "right" THEN "clear" ELSE "record"]
    /\ UNCHANGED <<failed_attempts, blocked_until, clock>>
    /\ LoginUnchanged

\* _record_failed_attempt and the 401 after it
RecordFailedAttempt(c) ==
    /\ logins.calls[c].pc = "record"
    /\ failed_attempts' = WithAttempt(PrunedAttempts(failed_attempts, clock),
                                      logins.calls[c].key, clock)
    /\ blocked_until' = WithBlock(PrunedBlocks(blocked_until, clock),
                                  WithAttempt(PrunedAttempts(failed_attempts, clock),
                                              logins.calls[c].key, clock),
                                  logins.calls[c].key, clock)
    /\ logins' = [Ended(c, 401) EXCEPT !.recorded[logins.calls[c].key] = Append(@, clock)]
    /\ UNCHANGED clock
    /\ LoginUnchanged

\* _clear_failed_attempts and the token pair
ClearFailedAttempts(c) ==
    /\ logins.calls[c].pc = "clear"
    /\ failed_attempts' = Popped(failed_attempts, logins.calls[c].key)
    /\ blocked_until' = Popped(blocked_until, logins.calls[c].key)
    /\ logins' = [Ended(c, 200) EXCEPT !.recorded[logins.calls[c].key] = <<>>]
    /\ UNCHANGED clock
    /\ LoginUnchanged

\* the wall clock read by _now_ts moves on
ClockTicks ==
    /\ logins # <<>>
    /\ clock < MaxTicks * ClockStep
    /\ clock' = clock + ClockStep
    /\ UNCHANGED <<failed_attempts, blocked_until, logins>>
    /\ LoginUnchanged

\* concurrent use: every caller may be in a call, all with one key
ContendedKeys == {"an@lpbank.vn|10.0.0.7"}

LoginNext ==
    \/ \E c \in Callers :
        \/ \E key \in ContendedKeys, attempt \in Attempts : CheckRateLimit(c, key, attempt)
        \/ FetchUser(c)
        \/ VerifyPassword(c)
        \/ RecordFailedAttempt(c)
        \/ ClearFailedAttempts(c)
    \/ ClockTicks

SpecLogins == LoginInit /\ [][LoginNext]_vars

\* sequential use: one caller, a call after the other
SequentialCallers == {"c1"}

SequentialLoginNext ==
    \/ \E c \in SequentialCallers :
        \/ \E key \in Keys, attempt \in Attempts : CheckRateLimit(c, key, attempt)
        \/ FetchUser(c)
        \/ VerifyPassword(c)
        \/ RecordFailedAttempt(c)
        \/ ClearFailedAttempts(c)
    \/ ClockTicks

SpecSequentialLogins == LoginInit /\ [][SequentialLoginNext]_vars


----------------------------------------------------------------------------
(* minutes_service.py: _chunk_text and _summarize_transcript_windows, the
   transcript taken by its length and by how much of it is written *)

WINDOW_CHAR_SIZE == 8000

WINDOW_CHAR_OVERLAP == 200

MAX_WINDOWS == 12

\* math.ceil(a / b) for positive b
CeilDiv(a, b) == (a + b - 1) \div b

\* the lengths of the transcripts
TranscriptLengths ==
    {0, 1, 200, 7999, 8000, 8001, 15001, 15800, 93800, 93801, 96000, 96001, 96012, 120000}

\* a transcript of the length: its first characters up to written are
\* letters, the rest, if any, is blank lines
Transcripts ==
    UNION {{[length |-> n, written |-> w] : w \in {0, n \div 2, n}} : n \in TranscriptLengths}

\* what the chat model does with a window
WindowOutcomes == {"bullets", "blank", "raises"}

\* window_size of _summarize_transcript_windows
window_size(transcript) ==
    IF transcript.length > WINDOW_CHAR_SIZE * MAX_WINDOWS
    THEN CeilDiv(transcript.length, MAX_WINDOWS)
    ELSE WINDOW_CHAR_SIZE

\* overlap = max(0, min(overlap, max_chars - 1))
chunk_overlap(max_chars, overlap) == Max({0, Min({overlap, max_chars - 1})})

\* text[start:end].strip() is not empty
ChunkHasText(transcript, from, to) == from < to /\ from < transcript.written

WindowingInit ==
    /\ ParseIdle
    /\ PointsIdle
    /\ MinutesIdle
    /\ RowsIdle
    /\ RenderIdle
    /\ LanguageIdle
    /\ RecoverIdle
    /\ NormalizeIdle
    /\ EmbeddedIdle
    /\ StoreIdle
    /\ LoginIdle
    /\ deletion = NoneValue
    /\ pc = "serving"
    /\ \E transcript \in Transcripts :
          windowing = [pc |-> "called", transcript |-> transcript, max_chars |-> 0,
                       from |-> 0, iterations |-> 0, chunks |-> <<>>, calls |-> 0,
                       summaries |-> 0]

WindowingUnchanged ==
    UNCHANGED <<pc, parseVars, pointsVars, minutesVars, rowsVars, renderVars, languageVars,
                recoverVars, normalizeVars, embeddedVars, storeVars, loginVars, deletion>>

\* _summarize_transcript_windows up to the call of _chunk_text and the
\* tests at the head of _chunk_text: nothing to do for an empty transcript
SummarizeStarts ==
    /\ windowing # NoneValue
    /\ windowing.pc = "called"
    /\ windowing' =
          IF windowing.transcript.length = 0
          THEN [windowing EXCEPT !.pc = "returned"]
          ELSE [windowing EXCEPT !.pc = "chunking",
                                 !.max_chars = window_size(windowing.transcript)]
    /\ WindowingUnchanged

\* one iteration of the while loop of _chunk_text
ChunkIteration ==
    /\ windowing # NoneValue
    /\ windowing.pc = "chunking"
    /\ \E to \in {Min({windowing.transcript.length, windowing.from + windowing.max_chars})} :
          windowing' =
              [windowing EXCEPT
                  !.iterations = @ + 1,
                  !.chunks = IF ChunkHasText(windowing.transcript, windowing.from, to)
                             THEN Append(@, <<windowing.from, to>>) ELSE @,
                  !.from = IF to >= windowing.transcript.length
                           THEN @
                           ELSE Max({0, to - chunk_overlap(windowing.max_chars,
                                                           WINDOW_CHAR_OVERLAP)}),
                  !.pc = IF to >= windowing.transcript.length
                            \/ ~(Max({0, to - chunk_overlap(windowing.max_chars,
                                                            WINDOW_CHAR_OVERLAP)})
                                    < windowing.transcript.length)
                         THEN "summarizing" ELSE "chunking"]
    /\ WindowingUnchanged

\* one iteration of the for loop: assistant.chat.chat on the next chunk
SummarizeWindow(outcome) ==
    /\ windowing # NoneValue
    /\ windowing.pc = "summarizing"
    /\ windowing.calls < Len(windowing.chunks)
    /\ windowing' = [windowing EXCEPT
                        !.calls = @ + 1,
                        !.summaries = IF outcome = "bullets" THEN @ + 1 ELSE @]
    /\ WindowingUnchanged

\* return summaries
SummarizeReturns ==
    /\ windowing # NoneValue
    /\ windowing.pc = "summarizing"
    /\ windowing.calls = Len(windowing.chunks)
    /\ windowing' = [windowing EXCEPT !.pc = "returned"]
    /\ WindowingUnchanged

WindowingNext ==
    \/ SummarizeStarts
    \/ ChunkIteration
    \/ \E outcome \in WindowOutcomes : SummarizeWindow(outcome)
    \/ SummarizeReturns

SpecWindowing == WindowingInit /\ [][WindowingNext]_vars


----------------------------------------------------------------------------
(* project_service.py: delete_project, with a database that can fail at
   every statement; meeting_service.delete_meeting is called as given, it
   answers whether the meeting was deleted or raises *)

\* the documents of the project that have a stored file
ProjectDocuments == {"charter.pdf", "budget.xlsx"}

\* the meetings of the project
ProjectMeetings == {"kickoff"}

\* what a statement sent to the database does
StatementOutcomes == {"done", "raises"}

\* what meeting_service.delete_meeting does
DeleteMeetingOutcomes == {"deleted", "refused", "raises"}

\* the except branches of delete_project with the rollback and the return
\* of False left out: the function goes on to the removal of the assets
RollbackAndGoOn(run) ==
    [run EXCEPT !.pc = "delete_file_assets", !.pending = {}, !.row_pending = FALSE]

\* the except branches of delete_project, and the branch of the missing
\* row: db.rollback() and return False
RollbackAndReturnFalse(run) ==
    [run EXCEPT !.pc = "returned", !.result = "False", !.pending = {}, !.row_pending = FALSE]

DeletionInit ==
    /\ ParseIdle
    /\ PointsIdle
    /\ MinutesIdle
    /\ RowsIdle
    /\ RenderIdle
    /\ LanguageIdle
    /\ RecoverIdle
    /\ NormalizeIdle
    /\ EmbeddedIdle
    /\ StoreIdle
    /\ LoginIdle
    /\ windowing = NoneValue
    /\ pc = "serving"
    /\ \E exists \in BOOLEAN, documents \in SUBSET ProjectDocuments,
          meetings \in SUBSET ProjectMeetings, mocks \in SUBSET ProjectDocuments :
          deletion = [pc |-> "load_meetings",
                      project_row |-> exists,
                      document_rows |-> IF exists THEN documents ELSE {},
                      meeting_rows |-> IF exists THEN meetings ELSE {},
                      files |-> IF exists THEN documents ELSE {},
                      mock_docs |-> IF exists THEN mocks ELSE {},
                      meeting_ids |-> {},
                      assets |-> {},
                      pending |-> {},
                      row_pending |-> FALSE,
                      committed |-> FALSE,
                      removed |-> {},
                      removed_before_commit |-> FALSE,
                      result |-> "none"]

DeletionUnchanged ==
    UNCHANGED <<pc, parseVars, pointsVars, minutesVars, rowsVars, renderVars, languageVars,
                recoverVars, normalizeVars, embeddedVars, storeVars, loginVars, windowing>>

Running(at) == deletion # NoneValue /\ deletion.pc = at

\* step 1: the meetings of the project are selected
LoadMeetings(outcome) ==
    /\ Running("load_meetings")
    /\ deletion' = IF outcome = "raises"
                   THEN RollbackAndReturnFalse(deletion)
                   ELSE [deletion EXCEPT !.pc = "delete_meetings",
                                         !.meeting_ids = deletion.meeting_rows]
    /\ DeletionUnchanged

\* the for loop over meeting_ids: delete_meeting is called outside every
\* try, a refusal is logged, an exception leaves delete_project
DeleteMeeting(outcome) ==
    /\ Running("delete_meetings")
    /\ deletion.meeting_ids # {}
    /\ \E meetingId \in deletion.meeting_ids :
          deletion' =
              IF outcome = "raises"
              THEN [deletion EXCEPT !.pc = "returned", !.result = "raised"]
              ELSE [deletion EXCEPT
                        !.meeting_ids = @ \ {meetingId},
                        !.meeting_rows = IF outcome = "deleted" THEN @ \ {meetingId} ELSE @]
    /\ DeletionUnchanged

\* step 2: the assets of the project's documents are collected; a failure
\* is logged and what was collected so far is kept
CollectAssets(outcome) ==
    /\ Running("delete_meetings")
    /\ deletion.meeting_ids = {}
    /\ \E collected \in IF outcome = "raises"
                        THEN SUBSET deletion.document_rows \ {deletion.document_rows}
                        ELSE {deletion.document_rows} :
          deletion' = [deletion EXCEPT !.pc = "delete_rows", !.assets = collected]
    /\ DeletionUnchanged

\* the calls of _delete_rows_by_scope
DeleteRows(outcome) ==
    /\ Running("delete_rows")
    /\ deletion' = IF outcome = "raises"
                   THEN RollbackAndReturnFalse(deletion)
                   ELSE [deletion EXCEPT !.pc = "leftover_meetings",
                                         !.pending = deletion.document_rows]
    /\ DeletionUnchanged

\* the meetings that still refer to the project are deleted, inside the try
DeleteLeftoverMeetings(outcome) ==
    /\ Running("leftover_meetings")
    /\ deletion' = IF outcome = "raises"
                   THEN RollbackAndReturnFalse(deletion)
                   ELSE [deletion EXCEPT
                            !.pc = "delete_project_row",
                            !.meeting_rows = IF outcome = "deleted" THEN {} ELSE @]
    /\ DeletionUnchanged

\* DELETE FROM project WHERE id = :project_id RETURNING id
DeleteProjectRow(outcome) ==
    /\ Running("delete_project_row")
    /\ deletion' = IF outcome = "raises" \/ ~deletion.project_row
                   THEN RollbackAndReturnFalse(deletion)
                   ELSE [deletion EXCEPT !.pc = "commit", !.row_pending = TRUE]
    /\ DeletionUnchanged

\* db.commit()
Commit(outcome) ==
    /\ Running("commit")
    /\ deletion' = IF outcome = "raises"
                   THEN RollbackAndReturnFalse(deletion)
                   ELSE [deletion EXCEPT !.pc = "delete_file_assets",
                                         !.committed = TRUE,
                                         !.project_row = FALSE,
                                         !.document_rows = @ \ deletion.pending,
                                         !.pending = {},
                                         !.row_pending = FALSE]
    /\ DeletionUnchanged

\* _delete_file_assets: the storage object or the local file of every
\* collected asset is removed; a failure is logged and the loop goes on
DeleteFileAssets ==
    /\ Running("delete_file_assets")
    /\ \E kept \in SUBSET deletion.assets :
          deletion' = [deletion EXCEPT
                          !.pc = "remove_mock_docs",
                          !.files = (@ \ deletion.assets) \cup kept,
                          !.removed = @ \cup (deletion.assets \ kept),
                          !.removed_before_commit =
                                @ \/ (~deletion.committed /\ deletion.assets \ kept # {})]
    /\ DeletionUnchanged

\* _remove_mock_docs_for_project and return True
RemoveMockDocs ==
    /\ Running("remove_mock_docs")
    /\ deletion' = [deletion EXCEPT
                        !.pc = "returned",
                        !.result = "True",
                        !.removed = @ \cup deletion.mock_docs,
                        !.removed_before_commit =
                                @ \/ (~deletion.committed /\ deletion.mock_docs # {}),
                        !.mock_docs = {}]
    /\ DeletionUnchanged

DeletionNext ==
    \/ \E outcome \in StatementOutcomes :
        \/ LoadMeetings(outcome)
        \/ CollectAssets(outcome)
        \/ DeleteRows(outcome)
        \/ DeleteProjectRow(outcome)
        \/ Commit(outcome)
    \/ \E outcome \in DeleteMeetingOutcomes :
        \/ DeleteMeeting(outcome)
        \/ DeleteLeftoverMeetings(outcome)
    \/ DeleteFileAssets
    \/ RemoveMockDocs

SpecDeletion == DeletionInit /\ [][DeletionNext]_vars

----------------------------------------------------------------------------
(* Properties *)

\* C5: when the response is a well-formed JSON object, with or without a
\* code fence around it, _parse_json_object_relaxed returns exactly the
\* strict parse of the unwrapped text, typographic quotes, apostrophes,
\* commas and colons inside string values included.
WellFormedParsesStrictly ==
    (kind = "wellformed" /\ pc = "returned") => parsed = json_loads(body).v

\* C6: an object text that differs from valid JSON only by trailing commas,
\* unquoted keys and single-quoted strings, alone or combined, is returned as
\* the object it was written to mean.
RelaxedWritingParsesAsIntended ==
    (kind = "relaxed" /\ pc = "returned") => parsed = intended

\* C7: the value returned is the first, in the order full text then brace
\* span and inside each the four repairs in their fixed order, that json.loads
\* turns into an object; arrays and scalars are passed over; None is returned
\* when there is no such pair.
FirstObjectInOrderWins ==
    pc = "returned" =>
        LET text == AsciiQuotes(strip_code_fences(raw))
            open == Find(text, "{")
            close == RFind(text, "}")
            spans == IF 0 < open /\ open < close
                     THEN <<text, SubSeq(text, open, close)>>
                     ELSE <<text>>
            repairs(c) == <<c,
                            RemoveTrailingCommas(c),
                            QuoteKeys(RemoveTrailingCommas(c)),
                            SingleToDoubleQuotes(QuoteKeys(RemoveTrailingCommas(c)))>>
            pairs == Flat([c \in 1..Len(spans) |-> repairs(Strip(spans[c]))], 1, Len(spans))
            objects == {k \in 1..Len(pairs) :
                            json_loads(pairs[k]).ok /\ json_loads(pairs[k]).v.t = "dict"}
        IN  parsed = IF objects = {} THEN NoneValue ELSE json_loads(pairs[Min(objects)]).v

\* C7, the case: the full text parsed to an array, which was passed over, and
\* the brace span gave the object
ObjectFoundInBraceSpan ==
    /\ pc = "returned"
    /\ parsed.t = "dict"
    /\ ci = 2
    /\ json_loads(json_object_candidates(raw)[1]).v.t = "list"

\* C8: the list _normalize_key_points returns has no two entries equal up to
\* case, keeps the first occurrences in their order and casing, and has no
\* entry that is empty, starts with a bullet or number marker, or is a
\* placeholder.
NormalizedPointsAreClean ==
    (pc = "returned" /\ pointsIn.t = "list") =>
        LET cleaned == [i \in 1..Len(pointsIn.kids) |->
                            CleanPoint(Strip(pointsIn.kids[i].v.s))]
        IN  /\ \A i, j \in 1..Len(pointsOut) :
                    i < j => Lower(pointsOut[i]) # Lower(pointsOut[j])
            /\ \A k \in 1..Len(pointsOut) :
                    /\ pointsOut[k] # <<>>
                    /\ pointsOut[k][1] \notin {"-", "*", BULLET} \cup Digits
                    /\ Lower(Strip(pointsOut[k])) \notin PlaceholderMarkers
            /\ \E f \in [1..Len(pointsOut) -> 1..Len(cleaned)] :
                    /\ \A k \in 1..Len(pointsOut) :
                            /\ cleaned[f[k]] = pointsOut[k]
                            /\ \A j \in 1..(f[k] - 1) : Lower(cleaned[j]) # Lower(pointsOut[k])
                    /\ \A k, l \in 1..Len(pointsOut) : k < l => f[k] < f[l]

\* C10: a key point is discarded as a placeholder exactly when its trimmed
\* text, ignoring case, is an entry of the placeholder set; a point that is
\* real content is kept.
PlaceholderDiscardIsExact ==
    (pc = "returned" /\ pointsIn.t = "list") =>
        \A i \in 1..Len(pointsIn.kids) :
            LET item == Strip(pointsIn.kids[i].v.s)
                kept == \E k \in 1..Len(pointsOut) :
                            Lower(pointsOut[k]) = Lower(CleanPoint(item))
            IN  IF Lower(item) \in PlaceholderMarkers THEN ~kept
                ELSE CleanPoint(item) # <<>> => kept

\* C1: whatever the provider does (a reply of any shape, an empty reply,
\* an exception), generate_summary_with_context returns a summary that is
\* not blank and a list of key points that is not empty, and the minutes
\* stored by generate_minutes_with_ai have an executive summary that is not
\* blank and key points that are not empty.
SummaryAndKeyPointsNeverEmpty ==
    /\ (pc = "normalize" /\ ~TakesStructured) =>
            /\ Strip(summary_result.summary) # <<>>
            /\ summary_result.key_points # <<>>
    /\ pc = "done" =>
            /\ minutes # <<>>
            /\ Strip(minutes[Len(minutes)].executive_summary) # <<>>
            /\ summary_result.key_points # <<>>

\* C1 witness: the provider call raised for a meeting that has nothing but
\* a title, and the minutes were stored with a summary and key points
StoredAfterProviderError ==
    /\ pc = "done"
    /\ select_provider(llm) # "mock"
    /\ llm.outcome = "error"
    /\ meeting = BareMeeting
    /\ Strip(minutes[1].executive_summary) # <<>>
    /\ summary_result.key_points # <<>>

\* the response gives no summary and no key points: neither the parsed
\* payload (top level or under "data") nor the regex recoverers find any
RecoversNothing(rawText) ==
    With(parse_json_object_relaxed(rawText), LAMBDA result :
        /\ NonEmptyObject(result) =>
                extract_summary_and_points_from_payload(result) = << <<>>, <<>> >>
        /\ extract_summary_field_by_regex(rawText) = <<>>
        /\ extract_key_points_by_regex(rawText) = <<>>)

\* C2: when the response is not empty and neither the relaxed parse nor the
\* regex recoverers yield a summary or key points, the summary that
\* generate_summary_with_context returns is the one synthesized from the
\* context and not the text of the response.
UnrecoveredResponseYieldsContextSummary ==
    (pc = "normalize" /\ ~TakesStructured /\ response # <<>> /\ RecoversNothing(response)) =>
        /\ summary_result.summary =
                AssistantFallbackSummary(context_payload(meeting), AssistantLang(language))
        /\ summary_result.summary # Strip(strip_code_fences(response))

\* the provider produced nothing usable: there is none, its call raised, or
\* its reply is blank
NothingUsable ==
    \/ select_provider(llm) = "mock"
    \/ llm.outcome = "error"
    \/ Strip(llm.reply) = <<>>

\* the meeting has a description and no other evidence
OnlyDescription(m) ==
    /\ m.exists
    /\ Strip(m.description) # <<>>
    /\ m.transcript = <<>>
    /\ m.action_rows = <<>> /\ m.decision_rows = <<>> /\ m.risk_rows = <<>>
    /\ m.related_docs = <<>>

\* C3: when the provider produced nothing usable and the context has only
\* a description, the summary (as returned by generate_summary_with_context
\* and as stored) contains an excerpt of the description and is not the
\* mock status message, and the key points are not empty.
UnusableReplyYieldsDescriptionSummary ==
    (pc \in {"normalize", "done"} /\ NothingUsable /\ OnlyDescription(meeting)) =>
        /\ Contains(summary_result.summary, Prefix(Strip(meeting.description), 360))
        /\ ~Contains(summary_result.summary, MockResponse)
        /\ summary_result.key_points # <<>>

\* C4: for a meeting that exists, generate_minutes_with_ai never ends with
\* an exception, whatever the provider returns or raises, and when it ends
\* it has stored one draft record that carries the summary.
LlmFailuresNeverSurface ==
    /\ meeting.exists => pc # "raised"
    /\ pc = "done" =>
            /\ Len(minutes) = 1
            /\ minutes[1].status = "draft"
            /\ minutes[1].executive_summary = summary_result.summary

\* C4 witness: the reply had wrong field types (a number as summary, an
\* object as key points, a list under "data") and a draft was stored
DraftStoredAfterWrongTypes ==
    /\ pc = "done"
    /\ select_provider(llm) # "mock"
    /\ llm.outcome = "reply"
    /\ llm.reply = Replies.wrong_types
    /\ Len(minutes) = 1
    /\ minutes[1].status = "draft"

\* C9: the key points of the stored minutes are at most 12, however many
\* key points the response has.
KeyPointsAreBounded ==
    pc = "done" => Len(summary_result.key_points) <= 12

\* C11: every action, decision and risk row that generate_minutes_with_ai
\* hands to the renderer has a description that is neither empty nor a
\* placeholder value, the rows loaded from the data store included.
RenderedRowsAreDescribed ==
    pc \in {"persist", "done"} =>
        \A rows \in {render_args.action_rows, render_args.decision_rows,
                     render_args.risk_rows} :
            \A i \in 1..Len(rows) : ~is_placeholder_value(rows[i].description)

\* C12: no risk row returned by _normalize_rows_from_llm(rows, "risk") has a
\* description that holds a no-risk sentinel phrase, English or Vietnamese,
\* in any letter case.
RiskRowsCarryNoSentinel ==
    (pc = "done" /\ row_type = "risk") =>
        \A i \in 1..Len(rowsOut) :
            \A marker \in RiskSentinels :
                \A p \in 1..Len(rowsOut[i].description) :
                    ~AtLower(rowsOut[i].description, p, marker)

\* C12 witness: of two risk rows, the one that reads "No risks identified" is
\* dropped and the real one is returned
NoRisksIdentifiedDropped ==
    /\ pc = "done"
    /\ row_type = "risk"
    /\ raw_rows = ListValue(<<PayloadRow(<<"d", "e", "s", "c", "r", "i", "p", "t", "i", "o",
          "n">>, StrValue(<<"B", "u", "d", "g", "e", "t", " ", "o", "v", "e", "r", "r", "u",
          "n">>)),
                              PayloadRow(<<"d", "e", "s", "c", "r", "i", "p", "t", "i", "o",
                                    "n">>, StrValue(<<"N", "o", " ", "r", "i", "s", "k", "s",
                                    " ", "i", "d", "e", "n", "t", "i", "f", "i", "e", "d">>))>>)
    /\ Len(rowsOut) = 1
    /\ rowsOut[1].description = <<"B", "u", "d", "g", "e", "t", " ", "o", "v", "e", "r", "r",
          "u", "n">>

\* the evidence a fallback summary has to show for the context of meeting m,
\* by priority: the excerpt of the description, else the excerpt of the
\* transcript, else the three counts of rows, else the note on the related
\* documents, else the sentence on limited evidence (docs and limited are
\* the texts of the synthesizer that wrote the summary)
ShowsFirstEvidence(summary, c, docs, limited) ==
    IF Strip(c.description) # <<>>
    THEN Contains(summary, Prefix(Strip(c.description), 360))
    ELSE IF Strip(c.transcript) # <<>>
    THEN Contains(summary, Prefix(Strip(c.transcript), 420))
    ELSE IF c.actions # <<>> \/ c.decisions # <<>> \/ c.risks # <<>>
    THEN \A items \in {c.actions, c.decisions, c.risks} :
            Contains(summary, <<" ">> \o NatText(Len(items)) \o <<" ">>)
    ELSE IF c.documents # <<>> THEN Contains(summary, docs)
    ELSE Contains(summary, limited)

\* C13: whenever a fallback summary is synthesized, by
\* generate_summary_with_context or by the fallback of
\* generate_minutes_with_ai, it is built from the first evidence present:
\* description, transcript, counts of rows, related documents, none.
FallbackSummaryFollowsPriority ==
    [][/\ (ExtractSummary /\ Strip(ResponseSummaryAndPoints(response).summary) = <<>>) =>
            ShowsFirstEvidence(summary_result'.summary, context_payload(meeting),
                               AssistantTexts[AssistantLang(language)].docs_available,
                               AssistantTexts[AssistantLang(language)].limited)
       /\ (SynthesizeFallback /\ summary_result.summary = <<>>) =>
            ShowsFirstEvidence(summary_result'.summary, context_payload(meeting),
                               FallbackTexts[ServiceLang(language)].docs_available,
                               FallbackTexts[ServiceLang(language)].limited)]_vars

\* the lists of the context that a count bullet is written for, in the
\* order of the bullets
CountedLists(c) ==
    SelectSeq(<<c.actions, c.decisions, c.risks, c.documents>>, LAMBDA items : items # <<>>)

\* C14: when the response gives no key points and the context has rows or
\* documents, the key points of the final minutes are the count bullets in
\* the order actions, decisions, risks, documents, each bullet states its
\* count, and there are at most 8 of them.
FallbackBulletsStateCounts ==
    (/\ pc = "done"
     /\ ~TakesStructured
     /\ ResponseSummaryAndPoints(response).key_points = <<>>
     /\ CountedLists(context_payload(meeting)) # <<>>) =>
        With(CountedLists(context_payload(meeting)), LAMBDA counted :
            /\ Len(summary_result.key_points) = Len(counted)
            /\ Len(summary_result.key_points) <= 8
            /\ \A i \in 1..Len(counted) :
                    Contains(summary_result.key_points[i], NatText(Len(counted[i]))))


\* the header lines of the sections every rendering has to show, in order:
\* meeting info, executive summary, key points, keywords, topics, decisions,
\* actions, risks, AI filters, topic tracker, next steps
SectionHeaders(prefer_vi) ==
    With(IF prefer_vi THEN RenderTexts.vi ELSE RenderTexts.en, LAMBDA texts :
        <<RenderHeaders.info, RenderHeaders.summary, RenderHeaders.key_points,
          texts.keywords_header, texts.topics_header, RenderHeaders.decisions,
          RenderHeaders.actions, RenderHeaders.risks, RenderHeaders.ai_filters,
          RenderHeaders.topic_tracker, RenderHeaders.next_steps>>)

\* the lines of a rendered text
LinesOf(rendered) == Split(rendered, {NL})

\* the lines of a rendered text that are section headers, in their order
HeaderLines(rendered, headers) ==
    SelectSeq(LinesOf(rendered), LAMBDA line : \E k \in 1..Len(headers) : headers[k] = line)

\* C15: for every input of format_minutes, whatever the session type and the
\* include flags, each fixed section header appears exactly once and in the
\* order of the contract.
EveryHeaderOnceInOrder ==
    (pc = "done" /\ renderOut # <<>>) =>
        HeaderLines(renderOut, SectionHeaders(renderIn.prefer_vi))
            = SectionHeaders(renderIn.prefer_vi)

\* C15, the case that holds: a meeting rendered with both include flags set
MeetingHeadersOnceInOrder ==
    (/\ pc = "done" /\ renderOut # <<>>
     /\ renderIn.args.session_type = <<"m", "e", "e", "t", "i", "n", "g">>
     /\ renderIn.args.include_ai_filters /\ renderIn.args.include_topic_tracker) =>
        HeaderLines(renderOut, SectionHeaders(renderIn.prefer_vi))
            = SectionHeaders(renderIn.prefer_vi)

\* the number of column separators of a line: pipes that no backslash escapes
Separators(line) ==
    Cardinality({j \in 1..Len(line) : line[j] = "|" /\ Unescaped(line, j)})

\* the indices of the lines that are the rule of a table
RuleLines(lines) ==
    {r \in 2..Len(lines) : \E width \in 2..5 : lines[r] = TableRule(width)}

\* the index of the last line of the table whose rule is line r
TableEnd(lines, r) ==
    Min({e \in r..Len(lines) : e = Len(lines) \/ lines[e + 1] = <<>>})

\* C17: in every table format_minutes writes, each data row has as many
\* unescaped column separators as the header row and holds no line break,
\* whatever the cell values are.
TableRowsKeepTheirColumns ==
    (pc = "done" /\ renderOut # <<>>) =>
        With(LinesOf(renderOut), LAMBDA lines :
            \A r \in RuleLines(lines) :
                \A d \in (r + 1)..TableEnd(lines, r) :
                    /\ Separators(lines[d]) = Separators(lines[r - 1])
                    /\ \A j \in 1..Len(lines[d]) : lines[d][j] # CR)

\* C17, the cases that hold: cell values with pipes, newlines and blanks
PlainCellsKeepTheirColumns ==
    (/\ pc = "done" /\ renderOut # <<>>
     /\ \A i \in 1..Len(renderIn.args.decision_rows) :
            With(OrText(renderIn.args.decision_rows[i], <<<<"d", "e", "s", "c", "r", "i", "p",
                  "t", "i", "o", "n">>>>), LAMBDA cell :
                ~Contains(cell, <<BSL, "|">>) /\ ~Contains(cell, <<CR>>))) =>
        With(LinesOf(renderOut), LAMBDA lines :
            \A r \in RuleLines(lines) :
                \A d \in (r + 1)..TableEnd(lines, r) :
                    /\ Separators(lines[d]) = Separators(lines[r - 1])
                    /\ \A j \in 1..Len(lines[d]) : lines[d][j] # CR)


\* C16: a generation request whose format is not markdown, html or text is
\* a hard failure: no minutes record is created for it.
UnknownFormatStoresNothing ==
    request.format \notin Formats => minutes = <<>>

\* C16, what the code does instead: the run of a request for an unknown
\* format ends with a stored draft that has no content column
UnknownFormatStoresEmptyDraft ==
    (pc = "done" /\ request.format \notin Formats /\ meeting # MissingMeeting) =>
        /\ Len(minutes) = 1
        /\ minutes[1].content_columns = {}
        /\ render_args.format_type = request.format


\* the name of a language in a prompt
LanguageNames == [vi |-> <<"V", "i", "e", "t", "n", "a", "m", "e", "s", "e">>, en |-> <<"E", "n",
      "g", "l", "i", "s", "h">>]

\* one language is used by every reader of a generation
UsesOneLanguage(sel) ==
    \E lang \in {"vi", "en"} :
        /\ sel.language_name = LanguageNames[lang]
        /\ sel.service_name = LanguageNames[lang]
        /\ sel.guard = lang
        /\ sel.fallback = lang
        /\ sel.service_fallback = lang
        /\ sel.placeholders = lang

\* C18: every value of the language setting selects exactly one of
\* Vietnamese and English, and within one generation the language name of
\* the prompt, the language guard, the synthesized fallback and the
\* placeholders of the renderer all use it, in gemini_client and in
\* minutes_service alike.
OneLanguagePerGeneration ==
    (pc = "done" /\ selection # NoneValue) => UsesOneLanguage(selection)

\* C18, the cases that hold: the aliases of the two languages and the
\* empty value, in any case and padding
KnownSettingsUseOneLanguage ==
    (/\ pc = "done" /\ selection # NoneValue
     /\ Lower(Strip(llm_output_language)) \in ViAliases \cup EnAliases \cup {<<>>}) =>
        UsesOneLanguage(selection)


\* C19: for a raw text that is an unquoted summary key, a colon and a
\* quoted string X with no braces around them, the regex recoverer
\* returns X.
BareSummaryFieldIsRecovered ==
    (pc = "done" /\ recoverIn # <<>> /\ recoverIn.shape \in {"bare", "spaced"}) =>
        recoverOut = StrValue(recoverIn.value)

\* C19, what the code does: the field is recovered when a closing brace or
\* another field follows the closing quote, and nothing is recovered
\* otherwise
SummaryFieldNeedsFollower ==
    (pc = "done" /\ recoverIn # <<>>) =>
        recoverOut = StrValue(IF recoverIn.shape \in {"closed", "followed"}
                              THEN recoverIn.value ELSE <<>>)


\* C20 as the contract states it: for the fenced response
\* {summary: 'All good', key_points: ['A','B','A']} the final summary is
\* the extracted text unchanged and the key points are A, B.
ScenarioOneSummaryUnchanged ==
    (pc = "done" /\ response = Replies.scenario1) =>
        /\ summary_result.summary = <<"A", "l", "l", " ", "g", "o", "o", "d">>
        /\ summary_result.key_points = <<<<"A">>, <<"B">>>>

\* C20: for the fenced response {summary: 'All good', key_points:
\* ['A','B','A']} the key points of the final minutes are exactly A, B, and
\* the final summary begins with the extracted text, followed by an empty
\* line and the paragraphs that expand a summary of under 140 words.
ScenarioOneSummaryExpanded ==
    (pc = "done" /\ response = Replies.scenario1) =>
        /\ summary_result.key_points = <<<<"A">>, <<"B">>>>
        /\ Prefix(summary_result.summary, 10) = <<"A", "l", "l", " ", "g", "o", "o",
              "d">> \o <<NL, NL>>
        /\ Len(summary_result.summary) > 10
        /\ Contains(summary_result.summary, <<"A", ";", " ", "B">>)

\* C20 witness: a run that received the response of scenario 1 has stored
\* its minutes
ScenarioOneStored ==
    /\ pc = "done"
    /\ response = Replies.scenario1
    /\ Len(minutes) = 1
    /\ minutes[1].executive_summary = summary_result.summary
    /\ summary_result.key_points = <<<<"A">>, <<"B">>>>


\* C21: for a prose response with a "Key Points:" heading over dash
\* bullets, the key points of the final minutes are the bullet texts in
\* order and the summary is derived from the context, not the prose.
ProseBulletsBecomeKeyPoints ==
    (pc = "done" /\ response = Replies.heading) =>
        /\ summary_result.key_points = <<<<"R", "e", "v", "e", "n", "u", "e", " ", "i", "s", " ",
              "u", "p">>, <<"H", "i", "r", "i", "n", "g", " ", "p", "a", "u", "s", "e", "d">>>>
        /\ ~Contains(summary_result.summary, <<"K", "e", "y", " ", "P", "o", "i", "n", "t", "s",
              ":">>)

\* C21, what the code does: the prose itself opens the summary and no key
\* point is one of its bullets
ProseBecomesTheSummary ==
    (pc = "done" /\ response = Replies.heading) =>
        /\ Prefix(summary_result.summary, Len(Replies.heading)) = Replies.heading
        /\ \A i \in 1..Len(summary_result.key_points) :
                summary_result.key_points[i] \notin {<<"R", "e", "v", "e", "n", "u", "e", " ",
                      "i", "s", " ", "u", "p">>, <<"H", "i", "r", "i", "n", "g", " ", "p", "a",
                      "u", "s", "e", "d">>}


\* C22: text normalization is idempotent: applied to its own output it
\* returns the same text, nested and repeated fences included.
NormalizationIsIdempotent ==
    \A k \in 2..Len(normOut) : normOut[k] = normOut[k - 1]

\* C22, the cases that hold: a text that is not fenced, or is wrapped in
\* one fence around a text that opens with no fence
UnnestedNormalizationIsIdempotent ==
    (normIn # NoneValue /\ Len(normOut) >= 1 /\ ~StartsWith(normOut[1], Fence)) =>
        \A k \in 2..Len(normOut) : normOut[k] = normOut[k - 1]


\* C23: the embedded-payload extractor of minutes_service recovers a
\* summary or key points for every text from which the relaxed parse of
\* gemini_client and its payload extraction recover one.
EmbeddedRecoversWhatRelaxedParseDoes ==
    (pc = "done" /\ embeddedOut # NoneValue) =>
        (embeddedOut.assistant # << <<>>, <<>> >> => embeddedOut.service # << <<>>, <<>> >>)

\* C23, the cases that hold: for a text that does not combine trailing
\* commas with unquoted keys or single quotes, the service recovers the
\* payload the relaxed parse recovers
SingleRepairRecoversTheSame ==
    (/\ pc = "done" /\ embeddedOut # NoneValue
     /\ \E o \in PayloadObjects, st \in WritingStyles, style \in FenceStyles :
            /\ embeddedIn = Wrap(style, WriteRelaxed(o, st))
            /\ ~(st.trailing /\ (st.bare \/ st.single))) =>
        (embeddedOut.assistant # << <<>>, <<>> >> => embeddedOut.service = embeddedOut.assistant)


\* C24: with prompt_strategy "structured_json" and a transcript, the
\* summary stage takes its result from the payload of generate_minutes_json;
\* the except branch sets the result only when the call of the provider
\* itself fails.
StructuredPayloadIsTaken ==
    (pc = "normalize" /\ TakesStructured /\ llm.outcome = "reply") =>
        summary_result # ExceptResult(meeting, ServiceLang(language))

\* C24, what the code does: every structured call ends in the except
\* branch, whatever the provider would reply
StructuredCallAlwaysCaught ==
    (pc = "normalize" /\ TakesStructured) =>
        /\ StructuredCallOutcome = "TypeError"
        /\ summary_result = ExceptResult(meeting, ServiceLang(language))
        /\ response = <<>>


\* C25: for any interleaving of concurrent create_minutes calls on one
\* meeting, the stored versions of the meeting are pairwise distinct.
StoredVersionsAreDistinct ==
    \A i, j \in 1..Len(meeting_minutes) :
        (/\ i # j
         /\ meeting_minutes[i].meeting_id = meeting_minutes[j].meeting_id) =>
            meeting_minutes[i].version # meeting_minutes[j].version

\* C28: update_minutes and approve_minutes return the row whose id was
\* passed in, for every id that exists, the highest version of its meeting
\* or not.
ReturnsTheModifiedRow ==
    \A s \in DOMAIN sessions :
        (/\ sessions[s].pc = "returned"
         /\ sessions[s].op \in {"update", "approve"}
         /\ RowWithId(meeting_minutes, sessions[s].minutes_id) # 0) =>
            /\ sessions[s].returned # NoneValue
            /\ sessions[s].returned.id = sessions[s].minutes_id


\* C26: for any interleaving of concurrent authenticate_user calls with one
\* throttle key, no user lookup and no password check for the key happens
\* while the key is blocked.
NoCredentialCheckWhileBlocked ==
    [][\A c \in Callers :
            (/\ logins.calls[c].pc \in {"lookup", "verify"}
             /\ logins'.calls[c].pc # logins.calls[c].pc) =>
                ~IsBlocked(blocked_until, logins.calls[c].key, clock)]_vars

\* the recorded failures of the key that were the fifth within the window
FifthFailures(key) ==
    {i \in MAX_FAILED_ATTEMPTS..Len(logins.recorded[key]) :
        logins.recorded[key][i] - logins.recorded[key][i - (MAX_FAILED_ATTEMPTS - 1)]
            <= LOGIN_WINDOW_SECONDS}

\* C27: in sequential use, once five failed logins of a key were recorded
\* within the 10-minute window, a call for the key that starts less than
\* 5 minutes after the fifth one ends with 429 in _check_rate_limit, before
\* the user lookup and the password check and whatever the password, and
\* records no failed attempt.
BlockedCallsAreRejected ==
    [][\A c \in SequentialCallers, key \in Keys :
            (/\ logins'.started = logins.started + 1
             /\ logins'.calls[c].key = key
             /\ \E i \in FifthFailures(key) :
                    clock - logins.recorded[key][i] < LOGIN_BLOCK_SECONDS) =>
                /\ logins'.calls[c].pc = "done"
                /\ logins'.calls[c].status = 429
                /\ logins'.recorded = logins.recorded
                /\ \A k \in DOMAIN failed_attempts' :
                        /\ k \in DOMAIN failed_attempts
                        /\ Len(failed_attempts'[k]) <= Len(failed_attempts[k])]_vars

\* C27: five wrong passwords were recorded for the key and the call with
\* the right password that followed was turned away
RightPasswordTurnedAway ==
    \E c \in SequentialCallers :
        /\ logins # <<>>
        /\ logins.calls[c].pc = "done"
        /\ logins.calls[c].status = 429
        /\ logins.calls[c].attempt = "right"
        /\ FifthFailures(logins.calls[c].key) # {}

\* C27, the end of the block: when the block's five minutes are over, the
\* call is let through to the user lookup
CallAfterTheBlockIsLetThrough ==
    [][\A c \in SequentialCallers, key \in Keys :
            (/\ logins'.started = logins.started + 1
             /\ logins'.calls[c].key = key
             /\ \A i \in 1..Len(logins.recorded[key]) :
                    clock - logins.recorded[key][i] >= LOGIN_BLOCK_SECONDS) =>
                logins'.calls[c].pc = "lookup"]_vars


\* C29: for every transcript length, _summarize_transcript_windows splits
\* the transcript into at most MAX_WINDOWS windows and makes at most
\* MAX_WINDOWS calls of the chat model.
AtMostMaxWindows ==
    windowing # NoneValue =>
        /\ Len(windowing.chunks) <= MAX_WINDOWS
        /\ windowing.calls <= MAX_WINDOWS

\* C29, the loop: every iteration of the chunking loop moves the start of
\* the window forward, so the loop ends
ChunkingMovesForward ==
    [][(windowing # NoneValue /\ windowing.pc = "chunking" /\ windowing'.pc = "chunking") =>
            windowing'.from > windowing.from]_vars

\* C29, the number of windows the code makes: one more than MAX_WINDOWS
\* at most, for the lengths taken
AtMostOneWindowMore ==
    windowing # NoneValue =>
        /\ Len(windowing.chunks) <= MAX_WINDOWS + 1
        /\ windowing.calls <= MAX_WINDOWS + 1


====
